---- MODULE Spec2Model ----
(***************************************************************************)
(* Model of the prequel-compiler tree builders.                            *)
(*                                                                         *)
(*   pkg/parser/tree.go : YAML document -> parse tree (NodeT / MatcherT)   *)
(*   pkg/ast/ast_log.go : parse node    -> log matcher (AstLogMatcherT)    *)
(*                                                                         *)
(* A YAML document is a tree of yaml.Node records; the Parse*T structs are *)
(* obtained from it by the decode operators, and the builders walk both,   *)
(* as the Go code does.  Every builder is a pure function, modelled as an  *)
(* operator; the actions of the specification apply the builders to inputs *)
(* drawn from bounded sets of documents.                                   *)
(***************************************************************************)
EXTENDS Integers, Sequences, FiniteSets, TLC

(***************************************************************************)
(* Bounds of the model.                                                    *)
(***************************************************************************)
\* largest `count:` of a field-spec in the generated documents
MaxCount == 3
\* longest order/match list of the generated log matchers
MaxFields == 3
\* position of child i of the yaml node at position p is p * Fan + i
Fan == 10

(***************************************************************************)
(* Go's optional values: a nil pointer is None, &x is Some(x).  A slice is *)
(* a record that keeps nil apart from the empty slice.                     *)
(***************************************************************************)
None == <<>>
Some(x) == <<x>>
IsNone(o) == Len(o) = 0
IsSome(o) == Len(o) > 0
Val(o) == o[1]

NilSlice == [nil |-> TRUE, items |-> <<>>]
Slice(s) == [nil |-> FALSE, items |-> s]

Max(a, b) == IF a >= b THEN a ELSE b

\* The element of a one-element set.  The({e : x \in {v}}) is e with x bound
\* to the value of v: a result that the code keeps in a local variable and
\* reads several times is computed once.
The(S) == CHOOSE x \in S : TRUE

RECURSIVE Flatten(_)
Flatten(ss) == IF Len(ss) = 0 THEN <<>> ELSE Head(ss) \o Flatten(Tail(ss))

RECURSIVE SumSeq(_)
SumSeq(s) == IF Len(s) = 0 THEN 0 ELSE Head(s) + SumSeq(Tail(s))

\* the sequences over S of length lo..hi
SeqsOf(S, lo, hi) == UNION {[1..n -> S] : n \in lo..hi}

(***************************************************************************)
(* yaml.Node.  Content of a mapping holds the value nodes, Keys the key    *)
(* scalars' values (yaml.v3 interleaves them in Content; the builders only *)
(* read the key's Value and the value node).                               *)
(***************************************************************************)
YScalar(v) ==
    [Kind |-> "scalar", Tag |-> "!!str", Value |-> v, Keys |-> <<>>,
     Content |-> <<>>, Line |-> 0, Column |-> 0]
YNull ==
    [Kind |-> "scalar", Tag |-> "!!null", Value |-> "", Keys |-> <<>>,
     Content |-> <<>>, Line |-> 0, Column |-> 0]
YInt(n) ==
    [Kind |-> "scalar", Tag |-> "!!int", Value |-> ToString(n), Keys |-> <<>>,
     Content |-> <<>>, Line |-> 0, Column |-> 0]
YBool(b) ==
    [Kind |-> "scalar", Tag |-> "!!bool", Value |-> IF b THEN "true" ELSE "false",
     Keys |-> <<>>, Content |-> <<>>, Line |-> 0, Column |-> 0]
YMap(keys, vals) ==
    [Kind |-> "mapping", Tag |-> "!!map", Value |-> "", Keys |-> keys,
     Content |-> vals, Line |-> 0, Column |-> 0]
YSeq(items) ==
    [Kind |-> "sequence", Tag |-> "!!seq", Value |-> "", Keys |-> <<>>,
     Content |-> items, Line |-> 0, Column |-> 0]

\* a mapping from a sequence of <<key, value node>> pairs
YMapOf(pairs) ==
    YMap([i \in 1..Len(pairs) |-> pairs[i][1]], [i \in 1..Len(pairs) |-> pairs[i][2]])

\* The positions the YAML parser records: every node of a document gets a
\* Line of its own (Column is its depth).
RECURSIVE Place(_, _, _)
Place(n, line, depth) ==
    [n EXCEPT !.Line = line, !.Column = depth,
              !.Content = [i \in 1..Len(n.Content) |->
                              Place(n.Content[i], line * Fan + i, depth + 1)]]

Pos(line, col) == [Line |-> line, Col |-> col]
NoNode == [Kind |-> "nil", Tag |-> "", Value |-> "", Keys |-> <<>>,
           Content |-> <<>>, Line |-> 0, Column |-> 0]

\* findChild: the value node of the first key equal to `key` of a mapping
findChild(n, key) ==
    IF n.Kind # "mapping" \/ ~(\E i \in 1..Len(n.Keys) : n.Keys[i] = key)
    THEN [ok |-> FALSE, node |-> NoNode]
    ELSE [ok |-> TRUE,
          node |-> n.Content[CHOOSE i \in 1..Len(n.Keys) :
                       /\ n.Keys[i] = key
                       /\ \A j \in 1..(i - 1) : n.Keys[j] # key]]

\* seqItem: the idx-th (0-based) item of a sequence node
seqItem(seq, idx) ==
    IF seq.Kind # "sequence" \/ idx < 0 \/ idx >= Len(seq.Content)
    THEN [ok |-> FALSE, node |-> NoNode]
    ELSE [ok |-> TRUE, node |-> seq.Content[idx + 1]]

docRules == "rules"
docTerms == "terms"
docRule == "rule"
docSeq == "sequence"
docSet == "set"
docOrder == "order"
docMatch == "match"
docNegate == "negate"
docWindow == "window"

docSection == "section"
docVersion == "version"

(***************************************************************************)
(* Constructors of the documents of the model.                             *)
(***************************************************************************)
OptPair(key, o) == IF IsNone(o) THEN <<>> ELSE << <<key, Val(o)>> >>

\* a field-spec mapping { field?, value?, jq?, regex?, count? }
YField(field, value, jq, regex, count) ==
    YMapOf(OptPair("field", IF field = "" THEN None ELSE Some(YScalar(field)))
           \o OptPair("value", IF value = "" THEN None ELSE Some(YScalar(value)))
           \o OptPair("jq", IF jq = "" THEN None ELSE Some(YScalar(jq)))
           \o OptPair("regex", IF regex = "" THEN None ELSE Some(YScalar(regex)))
           \o OptPair("count", IF count = 0 THEN None ELSE Some(YInt(count))))

YEvent(source, origin) ==
    YMapOf(<< <<"source", YScalar(source)>>, <<"origin", YBool(origin)>> >>)

\* a sequence or set mapping; listKey is order or match; window, event, list
\* and negate are optional yaml nodes
YComposite(window, event, listKey, list, negate) ==
    YMapOf(OptPair(docWindow, window) \o OptPair("event", event)
           \o OptPair(listKey, list) \o OptPair(docNegate, negate))

YRule(id, hash, creId, body) ==
    YMapOf(<< <<"metadata", YMapOf(<< <<"id", YScalar(id)>>, <<"hash", YScalar(hash)>> >>)>>,
              <<"cre", YMapOf(<< <<"id", YScalar(creId)>> >>)>> >>
           \o OptPair(docRule, body))

\* an inline sequence or set entry of a list
YInline(key, composite) == YMapOf(<< <<key, composite>> >>)

(***************************************************************************)
(* The Parse*T structs and their YAML decoding (yaml.v3 Decode).  A key    *)
(* that is absent or null leaves a pointer or slice nil; an empty sequence *)
(* `[]` decodes to an empty slice that is not nil.                         *)
(***************************************************************************)
\* the count of the first entry of term1 of 41-nested.yaml
ExampleCount == 10

\* strconv on the integers the documents use
Atoi(s) ==
    IF \E n \in (-1)..Max(MaxCount + 1, ExampleCount) : ToString(n) = s
    THEN CHOOSE n \in (-1)..Max(MaxCount + 1, ExampleCount) : ToString(n) = s
    ELSE 0

IsNullOrAbsent(c) == ~c.ok \/ c.node.Tag = "!!null"

decodeString(n, key) ==
    LET c == findChild(n, key) IN IF IsNullOrAbsent(c) THEN "" ELSE c.node.Value
decodeInt(n, key) ==
    LET c == findChild(n, key) IN IF IsNullOrAbsent(c) THEN 0 ELSE Atoi(c.node.Value)
decodeBool(n, key) ==
    LET c == findChild(n, key) IN IF IsNullOrAbsent(c) THEN FALSE ELSE c.node.Value = "true"
decodeStrings(n, key) ==
    LET c == findChild(n, key) IN
    IF IsNullOrAbsent(c) THEN NilSlice
    ELSE Slice([i \in 1..Len(c.node.Content) |-> c.node.Content[i].Value])

\* ParseEventT
decodeEvent(n, key) ==
    LET c == findChild(n, key) IN
    IF IsNullOrAbsent(c) THEN None
    ELSE Some([Source |-> decodeString(c.node, "source"),
               Origin |-> decodeBool(c.node, "origin")])

\* ParseNegateOptsT
decodeNegateOpts(n, key) ==
    LET c == findChild(n, key) IN
    IF IsNullOrAbsent(c) THEN None
    ELSE Some([Window |-> decodeString(c.node, "window"),
               Slide |-> decodeString(c.node, "slide"),
               Anchor |-> decodeInt(c.node, "anchor"),
               Absolute |-> decodeBool(c.node, "absolute")])

\* []ParseExtractT
decodeExtract(n, key) ==
    LET c == findChild(n, key) IN
    IF IsNullOrAbsent(c) THEN <<>>
    ELSE [i \in 1..Len(c.node.Content) |->
             [Name |-> decodeString(c.node.Content[i], "name"),
              JqValue |-> decodeString(c.node.Content[i], "jq"),
              RegexValue |-> decodeString(c.node.Content[i], "regex")]]

ZeroTerm ==
    [Field |-> "", StrValue |-> "", JqValue |-> "", RegexValue |-> "", Count |-> 0,
     NegateOpts |-> None, Extract |-> <<>>, Sequence |-> None, Set |-> None]

RECURSIVE decodeTerm(_), decodeTerms(_, _), decodeSequence(_, _), decodeSet(_, _)

\* ParseTermT: a plain scalar is the string value; a mapping is a field-spec
\* or an inline sequence/set
decodeTerm(n) ==
    IF n.Kind = "scalar"
    THEN IF n.Tag = "!!null" THEN ZeroTerm ELSE [ZeroTerm EXCEPT !.StrValue = n.Value]
    ELSE [Field |-> decodeString(n, "field"),
          StrValue |-> decodeString(n, "value"),
          JqValue |-> decodeString(n, "jq"),
          RegexValue |-> decodeString(n, "regex"),
          Count |-> decodeInt(n, "count"),
          NegateOpts |-> decodeNegateOpts(n, docNegate),
          Extract |-> decodeExtract(n, "extract"),
          Sequence |-> decodeSequence(n, docSeq),
          Set |-> decodeSet(n, docSet)]

\* []ParseTermT
decodeTerms(n, key) ==
    LET c == findChild(n, key) IN
    IF IsNullOrAbsent(c) THEN NilSlice
    ELSE Slice([i \in 1..Len(c.node.Content) |-> decodeTerm(c.node.Content[i])])

\* *ParseSequenceT
decodeSequence(n, key) ==
    LET c == findChild(n, key) IN
    IF IsNullOrAbsent(c) THEN None
    ELSE Some([Window |-> decodeString(c.node, docWindow),
               Correlations |-> decodeStrings(c.node, "correlations"),
               Event |-> decodeEvent(c.node, "event"),
               Order |-> decodeTerms(c.node, docOrder),
               Negate |-> decodeTerms(c.node, docNegate)])

\* *ParseSetT
decodeSet(n, key) ==
    LET c == findChild(n, key) IN
    IF IsNullOrAbsent(c) THEN None
    ELSE Some([Window |-> decodeString(c.node, docWindow),
               Correlations |-> decodeStrings(c.node, "correlations"),
               Event |-> decodeEvent(c.node, "event"),
               Match |-> decodeTerms(c.node, docMatch),
               Negate |-> decodeTerms(c.node, docNegate)])

\* ParseRuleT
decodeRule(n) ==
    LET md == findChild(n, "metadata")
        cre == findChild(n, "cre")
        rl == findChild(n, docRule)
    IN [Metadata |-> [Id |-> IF IsNullOrAbsent(md) THEN "" ELSE decodeString(md.node, "id"),
                      Hash |-> IF IsNullOrAbsent(md) THEN "" ELSE decodeString(md.node, "hash"),
                      Gen |-> IF IsNullOrAbsent(md) THEN 0 ELSE decodeInt(md.node, "gen"),
                      Version |-> IF IsNullOrAbsent(md) THEN ""
                                  ELSE decodeString(md.node, "version")],
        Cre |-> [Id |-> IF IsNullOrAbsent(cre) THEN "" ELSE decodeString(cre.node, "id")],
        Rule |-> [Sequence |-> IF IsNullOrAbsent(rl) THEN None
                               ELSE decodeSequence(rl.node, docSeq),
                  Set |-> IF IsNullOrAbsent(rl) THEN None ELSE decodeSet(rl.node, docSet)]]

\* A Go map: parallel sequences of keys and values.
EmptyMap == [keys |-> <<>>, vals |-> <<>>]
MapHas(m, k) == \E i \in 1..Len(m.keys) : m.keys[i] = k
MapGet(m, k) == m.vals[CHOOSE i \in 1..Len(m.keys) : m.keys[i] = k]

(***************************************************************************)
(* pqerr: an error is its sentinel `cause` and the pqerr.Error layers      *)
(* wrapped around it, outermost first.  The nil error has cause "".        *)
(***************************************************************************)
NilErr == [cause |-> "", layers |-> <<>>]
Sentinel(c) == [cause |-> c, layers |-> <<>>]
IsErr(e) == e.cause # ""

Wrap(pos, ruleId, ruleHash, creId, err) ==
    IF ~IsErr(err) THEN NilErr
    ELSE [err EXCEPT !.layers =
             <<[Pos |-> pos, RuleId |-> ruleId, RuleHash |-> ruleHash, CreId |-> creId]>> \o @]

(***************************************************************************)
(* time.ParseDuration on the duration strings of the documents, in seconds *)
(***************************************************************************)
ParseDuration(s) ==
    CASE s = "0s" -> [ok |-> TRUE, d |-> 0]
      [] s = "1s" -> [ok |-> TRUE, d |-> 1]
      [] s = "5s" -> [ok |-> TRUE, d |-> 5]
      [] s = "10s" -> [ok |-> TRUE, d |-> 10]
      [] s = "30s" -> [ok |-> TRUE, d |-> 30]
      [] s = "1m" -> [ok |-> TRUE, d |-> 60]
      [] OTHER -> [ok |-> FALSE, d |-> 0]

(***************************************************************************)
(* pkg/parser/tree.go                                                      *)
(***************************************************************************)
ErrRuleNotFound == "ErrRuleNotFound"
ErrRuleRootNotFound == "ErrRuleRootNotFound"
ErrNotSupported == "ErrNotSupported"
ErrTermNotFound == "ErrTermNotFound"
ErrMissingOrder == "ErrMissingOrder"
ErrMissingMatch == "ErrMissingMatch"
ErrInvalidWindow == "ErrInvalidWindow"
ErrTermsMapping == "ErrTermsMapping"
ErrDuplicateTerm == "ErrDuplicateTerm"
ErrMissingRuleId == "ErrMissingRuleId"
ErrMissingRuleHash == "ErrMissingRuleHash"
ErrMissingCreId == "ErrMissingCreId"
ErrInvalidCreId == "ErrInvalidCreId"
ErrInvalidRuleId == "ErrInvalidRuleId"
ErrInvalidRuleHash == "ErrInvalidRuleHash"
ErrExtractName == "ErrExtractName"
\* the error of time.ParseDuration, which is no sentinel of the compiler
ErrTimeParseDuration == "time: invalid duration"
\* the errors of Read and checkDuplicates made with errors.New and fmt.Errorf
ErrRulesNotFound == "rules not found"
ErrDuplicateId == "duplicate id"
\* the error of yaml.v3 for a `rules` value that is no list
ErrYamlUnmarshal == "yaml: unmarshal errors"

NodeTypeSeq == "machine_seq"
NodeTypeSet == "machine_set"
NodeTypeLogSeq == "log_seq"
NodeTypeLogSet == "log_set"

\* Hash: base58 of the SHA-1 of a string.  A digest is the tagged input: equal
\* inputs give equal digests, different inputs different ones.
Hash(h) == "sha1:" \o h

\* _hashRule: base58 of the SHA-256 of the JSON encoding of the rule
_hashRule(rule) == "sha256:" \o ToString(rule)

\* the callee works on its own copy of the rule (ParseRuleT is passed by value)
HashRule(rule) == _hashRule([rule EXCEPT !.Metadata.Hash = ""])

\* StableHash that keeps the version string in the hash
StableHash_KeepVersion(rule) == HashRule([rule EXCEPT !.Metadata.Gen = 0])

StableHash(rule) == HashRule([rule EXCEPT !.Metadata.Gen = 0, !.Metadata.Version = ""])

GoodId == "RuleId111111"
GoodHash == "Hash11111111"
GoodCre == "cre-1"
OtherId == "RuleId222222"
OtherHash == "Hash22222222"
OtherCre == "cre-2"

\* the body of a rule of a stream: a sequence of one entry
StreamBody(v) ==
    YInline(docSeq, YComposite(Some(YScalar("30s")), None, docOrder,
                               Some(YSeq(<<YScalar(v)>>)), None))

\* the rules of the streams: two rules with identifiers of their own, one that
\* shares its rule id with the first, rules that lack the id, the hash, both,
\* and one whose rule id is the rule hash of the first
StreamRules ==
    [a |-> YRule(GoodId, GoodHash, GoodCre, Some(StreamBody("t1"))),
     b |-> YRule(OtherId, OtherHash, OtherCre, Some(StreamBody("B"))),
     dupId |-> YRule(GoodId, OtherHash, OtherCre, Some(StreamBody("B"))),
     noId |-> YRule("", OtherHash, OtherCre, Some(StreamBody("B"))),
     noHash |-> YRule(OtherId, "", OtherCre, Some(StreamBody("B"))),
     noBoth |-> YRule("", "", OtherCre, Some(StreamBody("B"))),
     crossId |-> YRule(GoodHash, OtherHash, OtherCre, Some(StreamBody("B")))]

\* a list of plain strings
YStrings(strs) == YSeq([i \in 1..Len(strs) |-> YScalar(strs[i])])

\* testdata/success_examples/41-nested.yaml
NestedRule ==
    YMapOf(<<
      <<"cre", YMapOf(<< <<"id", YScalar("nested-example")>> >>)>>,
      <<docRule, YInline(docSeq, YMapOf(<<
           <<docWindow, YScalar("30s")>>,
           <<"correlations", YStrings(<<"hostname">>)>>,
           <<docOrder, YStrings(<<"term1", "term3">>)>>,
           <<docNegate, YStrings(<<"term2">>)>> >>))>> >>)

NestedTerms ==
    YMapOf(<<
      <<"term1", YInline(docSeq, YMapOf(<<
           <<docWindow, YScalar("10s")>>,
           <<"event", YEvent("rabbitmq", TRUE)>>,
           <<docOrder, YSeq(<<YMapOf(<< <<"value", YScalar("Discarding message")>>,
                                        <<"count", YInt(ExampleCount)>> >>),
                              YScalar("Mnesia overloaded")>>)>>,
           <<docNegate, YStrings(<<"SIGTERM">>)>> >>))>>,
      <<"term2", YInline(docSet, YMapOf(<<
           <<"event", YMapOf(<< <<"source", YScalar("k8s")>> >>)>>,
           <<docMatch, YSeq(<<YMapOf(<< <<"field", YScalar("reason")>>,
                                        <<"value", YScalar("NodeShutdown")>> >>)>>)>> >>))>>,
      <<"term3", YInline(docSeq, YMapOf(<<
           <<docWindow, YScalar("5s")>>,
           <<"correlations", YStrings(<<"container_id">>)>>,
           <<docOrder, YSeq(<<
                YInline(docSeq, YMapOf(<<
                    <<docWindow, YScalar("1s")>>,
                    <<"event", YMapOf(<< <<"source", YScalar("nginx")>> >>)>>,
                    <<docOrder, YStrings(<<"error message", "shutdown">>)>> >>)),
                YInline(docSet, YMapOf(<<
                    <<"event", YMapOf(<< <<"source", YScalar("nginx")>> >>)>>,
                    <<docMatch, YStrings(<<"90%">>)>> >>)),
                YInline(docSet, YMapOf(<<
                    <<"event", YMapOf(<< <<"source", YScalar("k8s")>> >>)>>,
                    <<docMatch, YSeq(<<YMapOf(<< <<"field", YScalar("reason")>>,
                                                 <<"value", YScalar("Killing")>> >>)>>)>> >>))
              >>)>> >>))>>
    >>)

NestedDoc == YMapOf(<< <<docRules, YSeq(<<NestedRule>>)>>, <<docTerms, NestedTerms>> >>)

\* the yaml rules of the documents
DocumentRules == {StreamRules[k] : k \in DOMAIN StreamRules} \cup {NestedRule}

\* the image of a set under an operator
Image(F(_), S) == {F(x) : x \in S}

\* the digests WithGenIds can generate for a rule: the id from the cre id,
\* the hash from the content with the id it came with or the generated one
DigestsOf(r) ==
    {Hash(r.Cre.Id), HashRule(r), HashRule([r EXCEPT !.Metadata.Id = Hash(r.Cre.Id)])}

\* the digests WithGenIds can generate for the rules of the documents
Base58Digests == UNION Image(DigestsOf, Image(decodeRule, DocumentRules))

\* The identifiers the documents use, and which of them the regular
\* expressions accept:
\*   validBase58IdRegex  ^[1-9A-Za-z]{12,}$      validCreIdRegex ^[A-Za-z0-9-]{4,}$
\*   validateExtractName ^[A-Za-z][A-Za-z0-9_]*$
\* A base58 digest of 20 or 32 bytes has at least 20 characters of the
\* base58 alphabet, which the first expression accepts.
\* The generated digests are strings of the base58 alphabet as well; `digests`
\* holds the ones of the rules of the documents, fixed from Init on.
VARIABLE digests

isValidBase58Id(s) ==
    \/ s \in {GoodId, OtherId, GoodHash, OtherHash}
    \/ s \in digests
isValidCreId(s) == s \in {"cre-1", "cre-2", "nested-example"}
isValidExtractName(s) == s \in {"host", "pod_name", "x1"}

newEvent(t) == [Source |-> t.Source, Origin |-> t.Origin]

\* (*NodeT).WrapError
WrapError(n, err) ==
    Wrap(Pos(n.Metadata.Pos.Line, n.Metadata.Pos.Col), n.Metadata.RuleId,
         n.Metadata.RuleHash, n.Metadata.CreId, err)

NoNodeT ==
    [kind |-> "nil", Metadata |-> [RuleHash |-> "", RuleId |-> "", CreId |-> "", Window |-> 0,
                                   Event |-> None, Type |-> "", Correlations |-> NilSlice,
                                   NegateOpts |-> None, Pos |-> Pos(0, 0)],
     NegIdx |-> 0, Children |-> <<>>]

initNode(ruleId, ruleHash, creId, yn) ==
    CASE ruleId = "" -> [node |-> NoNodeT, err |-> Sentinel(ErrMissingRuleId)]
      [] ruleId # "" /\ ~isValidBase58Id(ruleId) ->
            [node |-> NoNodeT, err |-> Sentinel(ErrInvalidRuleId)]
      [] isValidBase58Id(ruleId) /\ ruleHash = "" ->
            [node |-> NoNodeT, err |-> Sentinel(ErrMissingRuleHash)]
      [] isValidBase58Id(ruleId) /\ ruleHash # "" /\ ~isValidBase58Id(ruleHash) ->
            [node |-> NoNodeT, err |-> Sentinel(ErrInvalidRuleHash)]
      [] isValidBase58Id(ruleId) /\ isValidBase58Id(ruleHash) /\ creId = "" ->
            [node |-> NoNodeT, err |-> Sentinel(ErrMissingCreId)]
      [] isValidBase58Id(ruleId) /\ isValidBase58Id(ruleHash) /\ creId # ""
         /\ ~isValidCreId(creId) ->
            [node |-> NoNodeT, err |-> Sentinel(ErrInvalidCreId)]
      [] OTHER ->
            [node |-> [kind |-> "node",
                       Metadata |-> [RuleHash |-> ruleHash, RuleId |-> ruleId, CreId |-> creId,
                                     Window |-> 0, Event |-> None, Type |-> "",
                                     Correlations |-> NilSlice, NegateOpts |-> None,
                                     Pos |-> Pos(yn.Line, yn.Column)],
                       NegIdx |-> -1, Children |-> <<>>],
             err |-> NilErr]

\* the window part of seqNodeProps and setNodeProps: the position moves to
\* the `window` value node of yn when yn is a mapping that has one
windowProps(node, window, yn) ==
    IF window = "" THEN [node |-> node, err |-> NilErr]
    ELSE LET winNode == findChild(yn, docWindow)
             n1 == IF winNode.ok
                   THEN [node EXCEPT !.Metadata.Pos = Pos(winNode.node.Line, winNode.node.Column)]
                   ELSE node
             d == ParseDuration(window)
         IN IF d.ok THEN [node |-> [n1 EXCEPT !.Metadata.Window = d.d], err |-> NilErr]
            ELSE [node |-> n1, err |-> WrapError(n1, Sentinel(ErrInvalidWindow))]

seqNodeProps(node, seq, order, yn) ==
    LET n0 == [node EXCEPT !.Metadata.Type = NodeTypeSeq] IN
    IF ~order THEN [node |-> n0, err |-> WrapError(n0, Sentinel(ErrMissingOrder))]
    ELSE LET n1 == IF IsSome(seq.Event)
                   THEN [n0 EXCEPT !.Metadata.Type = NodeTypeLogSeq,
                                   !.Metadata.Event = Some(newEvent(Val(seq.Event)))]
                   ELSE n0
             w == windowProps(n1, seq.Window, yn)
         IN IF IsErr(w.err) THEN w
            ELSE [node |-> IF seq.Correlations.nil THEN w.node
                           ELSE [w.node EXCEPT !.Metadata.Correlations = seq.Correlations],
                  err |-> NilErr]

setNodeProps(node, set, match, yn) ==
    LET n0 == [node EXCEPT !.Metadata.Type = NodeTypeSet] IN
    IF ~match THEN [node |-> n0, err |-> WrapError(n0, Sentinel(ErrMissingMatch))]
    ELSE LET n1 == IF IsSome(set.Event)
                   THEN [n0 EXCEPT !.Metadata.Type = NodeTypeLogSet,
                                   !.Metadata.Event = Some(newEvent(Val(set.Event)))]
                   ELSE n0
             w == windowProps(n1, set.Window, yn)
         IN IF IsErr(w.err) THEN w
            ELSE [node |-> IF set.Correlations.nil THEN w.node
                           ELSE [w.node EXCEPT !.Metadata.Correlations = set.Correlations],
                  err |-> NilErr]

extractTerms(terms) ==
    IF \E i \in 1..Len(terms) : ~isValidExtractName(terms[i].Name)
    THEN [extracts |-> <<>>, err |-> Sentinel(ErrExtractName)]
    ELSE [extracts |-> [i \in 1..Len(terms) |->
                           [Name |-> terms[i].Name, JqValue |-> terms[i].JqValue,
                            RegexValue |-> terms[i].RegexValue]],
          err |-> NilErr]

\* negateOpts: called with term.NegateOpts # nil
negateOpts(term) ==
    LET o == Val(term.NegateOpts)
        w == IF o.Window = "" THEN [ok |-> TRUE, d |-> 0] ELSE ParseDuration(o.Window)
        sl == IF o.Slide = "" THEN [ok |-> TRUE, d |-> 0] ELSE ParseDuration(o.Slide)
    IN IF ~w.ok \/ ~sl.ok
       THEN [opts |-> None, err |-> Sentinel(ErrTimeParseDuration)]
       ELSE [opts |-> Some([Window |-> w.d, Slide |-> sl.d, Anchor |-> o.Anchor,
                            Absolute |-> o.Absolute]),
             err |-> NilErr]

NoMatcher == [kind |-> "nil", Match |-> [Fields |-> <<>>], Negate |-> [Fields |-> <<>>],
              Window |-> 0]

parseValue(term, negate) ==
    IF ~negate
    THEN LET ex == IF Len(term.Extract) > 0 THEN extractTerms(term.Extract)
                   ELSE [extracts |-> <<>>, err |-> NilErr]
         IN IF IsErr(ex.err) THEN [node |-> NoMatcher, err |-> ex.err]
            ELSE [node |-> [kind |-> "matcher",
                            Match |-> [Fields |-> <<[Field |-> term.Field,
                                                     StrValue |-> term.StrValue,
                                                     JqValue |-> term.JqValue,
                                                     RegexValue |-> term.RegexValue,
                                                     Count |-> term.Count,
                                                     NegateOpts |-> None,
                                                     Extract |-> ex.extracts]>>],
                            Negate |-> [Fields |-> <<>>],
                            Window |-> 0],
                  err |-> NilErr]
    ELSE LET o == IF IsSome(term.NegateOpts) THEN negateOpts(term)
                  ELSE [opts |-> None, err |-> NilErr]
         IN IF IsErr(o.err) THEN [node |-> NoMatcher, err |-> o.err]
            ELSE [node |-> [kind |-> "matcher",
                            Match |-> [Fields |-> <<>>],
                            Negate |-> [Fields |-> <<[Field |-> term.Field,
                                                      StrValue |-> term.StrValue,
                                                      JqValue |-> term.JqValue,
                                                      RegexValue |-> term.RegexValue,
                                                      Count |-> term.Count,
                                                      NegateOpts |-> o.opts,
                                                      Extract |-> <<>>]>>],
                            Window |-> 0],
                  err |-> NilErr]

RECURSIVE buildChildren(_, _, _, _, _, _), buildChild(_, _, _, _, _, _),
          nodeFromTerm(_, _, _, _, _, _), buildSequenceNode(_, _, _, _, _),
          buildSetNode(_, _, _, _, _), buildPosNegChildren(_, _, _, _, _, _)

\* buildChild with the negate options of the term winning over the reference's
buildChild_TermOptsWin(parent, tm, term, parentNegate, yn, termsY) ==
    IF term.StrValue # "" /\ MapHas(tm, term.StrValue)
    THEN IF ~MapHas(termsY, term.StrValue)
         THEN [node |-> NoNodeT, err |-> WrapError(parent, Sentinel(ErrTermNotFound))]
         ELSE LET resolvedTerm == MapGet(tm, term.StrValue)
                  t == IF IsNone(resolvedTerm.NegateOpts)
                       THEN [resolvedTerm EXCEPT !.NegateOpts = term.NegateOpts]
                       ELSE resolvedTerm
              IN nodeFromTerm(parent, tm, t, parentNegate, MapGet(termsY, term.StrValue), termsY)
    ELSE nodeFromTerm(parent, tm, term, parentNegate, yn, termsY)

\* the body of the loop of buildChildren: the child built from one entry
buildChild(parent, tm, term, parentNegate, yn, termsY) ==
    IF term.StrValue # "" /\ MapHas(tm, term.StrValue)
    THEN IF ~MapHas(termsY, term.StrValue)
         THEN [node |-> NoNodeT, err |-> WrapError(parent, Sentinel(ErrTermNotFound))]
         ELSE LET resolvedTerm == MapGet(tm, term.StrValue)
                  t == IF IsSome(term.NegateOpts)
                       THEN [resolvedTerm EXCEPT !.NegateOpts = term.NegateOpts]
                       ELSE resolvedTerm
              IN nodeFromTerm(parent, tm, t, parentNegate, MapGet(termsY, term.StrValue), termsY)
    ELSE nodeFromTerm(parent, tm, term, parentNegate, yn, termsY)

buildChildren(parent, tm, terms, parentNegate, yn, termsY) ==
    IF Len(terms) = 0 THEN [children |-> <<>>, err |-> NilErr]
    ELSE The({
        IF IsErr(first.err) THEN [children |-> <<>>, err |-> first.err]
        ELSE The({
            IF IsErr(rest.err) THEN rest
            ELSE [children |-> <<first.node>> \o rest.children, err |-> NilErr] :
            rest \in {buildChildren(parent, tm, Tail(terms), parentNegate, yn, termsY)}}) :
        first \in {buildChild(parent, tm, Head(terms), parentNegate, yn, termsY)}})

\* the negate options of a sequence or set child (nodeFromTerm, both cases)
withNegateOpts(term, built) ==
    IF IsErr(built.err) \/ IsNone(term.NegateOpts) THEN built
    ELSE LET o == negateOpts(term) IN
         IF IsErr(o.err) THEN [node |-> NoNodeT, err |-> o.err]
         ELSE [node |-> [built.node EXCEPT !.Metadata.NegateOpts = o.opts], err |-> NilErr]

nodeFromTerm(parent, termsT, term, parentNegate, yn, termsY) ==
    CASE IsSome(term.Sequence) ->
            LET c == findChild(yn, docSeq)
                n == IF c.ok THEN c.node ELSE yn
            IN withNegateOpts(term, buildSequenceNode(parent, termsT, Val(term.Sequence), n, termsY))
      [] IsNone(term.Sequence) /\ IsSome(term.Set) ->
            LET c == findChild(yn, docSet)
                n == IF c.ok THEN c.node ELSE yn
            IN withNegateOpts(term, buildSetNode(parent, termsT, Val(term.Set), n, termsY))
      [] IsNone(term.Sequence) /\ IsNone(term.Set)
         /\ (term.StrValue # "" \/ term.JqValue # "" \/ term.RegexValue # "") ->
            parseValue(term, parentNegate)
      [] OTHER ->
            [node |-> NoNodeT,
             err |-> WrapError([parent EXCEPT !.Metadata.Pos = Pos(yn.Line, yn.Column)],
                               Sentinel(ErrTermNotFound))]

\* withChildren with the negated children first
withChildren_NegFirst(node, pos, neg) ==
    [node EXCEPT !.Children = (@ \o neg) \o pos,
                 !.NegIdx = IF Len(neg) > 0 THEN Len(pos) ELSE @]

\* withChildren with NegIdx set whether or not there is a negated child
withChildren_NegIdxAlways(node, pos, neg) ==
    [node EXCEPT !.Children = (@ \o pos) \o neg,
                 !.NegIdx = Len(pos)]

\* append pos, then neg; NegIdx when there is a negated child
withChildren(node, pos, neg) ==
    [node EXCEPT !.Children = (@ \o pos) \o neg,
                 !.NegIdx = IF Len(neg) > 0 THEN Len(pos) ELSE @]

buildPosNegChildren(node, termsT, matches, negates, yn, termsY) ==
    The({
        IF IsErr(cPos.err) THEN [pos |-> <<>>, neg |-> <<>>, err |-> cPos.err]
        ELSE The({
            IF IsErr(cNeg.err) THEN [pos |-> <<>>, neg |-> <<>>, err |-> cNeg.err]
            ELSE [pos |-> cPos.children, neg |-> cNeg.children, err |-> NilErr] :
            cNeg \in {IF Len(negates.items) > 0
                      THEN buildChildren(node, termsT, negates.items, TRUE, yn, termsY)
                      ELSE [children |-> <<>>, err |-> NilErr]}}) :
        cPos \in {IF Len(matches.items) > 0
                  THEN buildChildren(node, termsT, matches.items, FALSE, yn, termsY)
                  ELSE [children |-> <<>>, err |-> NilErr]}})

buildSequenceNode(parent, termsT, seq, yn, termsY) ==
    The({
        IF IsErr(init.err) THEN [node |-> NoNodeT, err |-> WrapError(parent, init.err)]
        ELSE The({
            IF IsErr(ch.err) THEN [node |-> NoNodeT, err |-> ch.err]
            ELSE The({
                IF IsErr(props.err) THEN [node |-> NoNodeT, err |-> props.err]
                ELSE [node |-> withChildren(props.node, ch.pos, ch.neg), err |-> NilErr] :
                props \in {seqNodeProps(init.node, seq, ~seq.Order.nil, yn)}}) :
            ch \in {buildPosNegChildren(init.node, termsT, seq.Order, seq.Negate, yn, termsY)}}) :
        init \in {initNode(parent.Metadata.RuleId, parent.Metadata.RuleHash,
                           parent.Metadata.CreId, yn)}})

buildSetNode(parent, termsT, set, yn, termsY) ==
    The({
        IF IsErr(init.err) THEN [node |-> NoNodeT, err |-> WrapError(parent, init.err)]
        ELSE The({
            IF IsErr(ch.err) THEN [node |-> NoNodeT, err |-> ch.err]
            ELSE The({
                IF IsErr(props.err) THEN [node |-> NoNodeT, err |-> props.err]
                ELSE [node |-> withChildren(props.node, ch.pos, ch.neg), err |-> NilErr] :
                props \in {setNodeProps(init.node, set, ~set.Match.nil, yn)}}) :
            ch \in {buildPosNegChildren(init.node, termsT, set.Match, set.Negate, yn, termsY)}}) :
        init \in {initNode(parent.Metadata.RuleId, parent.Metadata.RuleHash,
                           parent.Metadata.CreId, yn)}})

buildChildrenGroups(root, termsT, matches, negates, orderYn, negateYn, termsY) ==
    The({
        IF IsErr(cPos.err) THEN [pos |-> <<>>, neg |-> <<>>, err |-> cPos.err]
        ELSE The({
            IF IsErr(cNeg.err) THEN [pos |-> <<>>, neg |-> <<>>, err |-> cNeg.err]
            ELSE [pos |-> cPos.children, neg |-> cNeg.children, err |-> NilErr] :
            cNeg \in {IF Len(negates.items) > 0
                      THEN buildChildren(root, termsT, negates.items, TRUE, negateYn, termsY)
                      ELSE [children |-> <<>>, err |-> NilErr]}}) :
        cPos \in {IF Len(matches.items) > 0
                  THEN buildChildren(root, termsT, matches.items, FALSE, orderYn, termsY)
                  ELSE [children |-> <<>>, err |-> NilErr]}})

\* buildSequenceTree: ruleNode is the `sequence` mapping of the rule
buildSequenceTree(root, termsT, r, ruleNode, termsY) ==
    LET seq == Val(r.Rule.Sequence)
        orderYn == findChild(ruleNode, docOrder)
        negateYn == findChild(ruleNode, docNegate)
    IN IF ~orderYn.ok
       THEN [node |-> NoNodeT,
             err |-> Wrap(Pos(ruleNode.Line, ruleNode.Column), r.Metadata.Id, r.Metadata.Hash,
                          r.Cre.Id, Sentinel(ErrMissingOrder))]
       ELSE The({
           IF IsErr(ch.err) THEN [node |-> NoNodeT, err |-> ch.err]
           ELSE The({
               IF IsErr(props.err) THEN [node |-> NoNodeT, err |-> props.err]
               ELSE [node |-> withChildren(props.node, ch.pos, ch.neg), err |-> NilErr] :
               props \in {seqNodeProps(root, seq, ~seq.Order.nil, orderYn.node)}}) :
           ch \in {buildChildrenGroups(root, termsT, seq.Order, seq.Negate, orderYn.node,
                                       negateYn.node, termsY)}})

\* buildSetTree: ruleNode is the `set` mapping of the rule
buildSetTree(root, termsT, r, ruleNode, termsY) ==
    LET set == Val(r.Rule.Set)
        matchYn == findChild(ruleNode, docMatch)
        negateYn == findChild(ruleNode, docNegate)
    IN IF ~matchYn.ok
       THEN [node |-> NoNodeT,
             err |-> Wrap(Pos(ruleNode.Line, ruleNode.Column), r.Metadata.Id, r.Metadata.Hash,
                          r.Cre.Id, Sentinel(ErrMissingMatch))]
       ELSE The({
           IF IsErr(ch.err) THEN [node |-> NoNodeT, err |-> ch.err]
           ELSE The({
               IF IsErr(props.err) THEN [node |-> NoNodeT, err |-> props.err]
               ELSE [node |-> withChildren(props.node, ch.pos, ch.neg), err |-> NilErr] :
               props \in {setNodeProps(root, set, ~set.Match.nil, ruleNode)}}) :
           ch \in {buildChildrenGroups(root, termsT, set.Match, set.Negate, matchYn.node,
                                       negateYn.node, termsY)}})

buildTree(termsT, r, ruleNode, termsY) ==
    LET n == findChild(ruleNode, docRule) IN
    IF ~n.ok
    THEN [node |-> NoNodeT,
          err |-> Wrap(Pos(ruleNode.Line, ruleNode.Column), r.Metadata.Id, r.Metadata.Hash,
                       r.Cre.Id, Sentinel(ErrRuleRootNotFound))]
    ELSE CASE IsSome(r.Rule.Sequence) ->
                The({
                    IF IsErr(root.err)
                    THEN [node |-> NoNodeT,
                          err |-> Wrap(Pos(n.node.Line, n.node.Column), r.Metadata.Id,
                                       r.Metadata.Hash, r.Cre.Id, root.err)]
                    ELSE buildSequenceTree(root.node, termsT, r, findChild(n.node, docSeq).node,
                                           termsY) :
                    root \in {initNode(r.Metadata.Id, r.Metadata.Hash, r.Cre.Id,
                                       findChild(n.node, docSeq).node)}})
           [] IsNone(r.Rule.Sequence) /\ IsSome(r.Rule.Set) ->
                The({
                    IF IsErr(root.err)
                    THEN [node |-> NoNodeT,
                          err |-> Wrap(Pos(n.node.Line, n.node.Column), r.Metadata.Id,
                                       r.Metadata.Hash, r.Cre.Id, root.err)]
                    ELSE buildSetTree(root.node, termsT, r, findChild(n.node, docSet).node,
                                      termsY) :
                    root \in {initNode(r.Metadata.Id, r.Metadata.Hash, r.Cre.Id,
                                       findChild(n.node, docSet).node)}})
           [] OTHER ->
                [node |-> NoNodeT,
                 err |-> Wrap(Pos(n.node.Line, n.node.Column), r.Metadata.Id, r.Metadata.Hash,
                              r.Cre.Id, Sentinel(ErrNotSupported))]

(***************************************************************************)
(* pkg/ast/ast_log.go                                                      *)
(***************************************************************************)
ErrUnknownField == "ErrUnknownField"
ErrUnknownSrc == "ErrUnknownSrc"
ErrSeqPosConditions == "ErrSeqPosConditions"
ErrMissingScalar == "ErrMissingScalar"
\* package ast's own sentinels of these names
AstErrInvalidWindow == "ast.ErrInvalidWindow"
ErrInvalidNodeType == "ErrInvalidNodeType"

EventTypeK8s == "k8s"
FieldK8sEventReason == "reason"
FieldK8sEventType == "type"
FieldK8sEventReasonDetail == "reasonDetail"
ScopeCluster == "cluster"
ScopeNode == "node"

\* match.TermT of prequel-logmatch
TermRaw == "TermRaw"
TermJqJson == "TermJqJson"
TermRegex == "TermRegex"
ZeroTermT == [Type |-> "", Value |-> ""]
ZeroAstField == [Field |-> "", TermValue |-> ZeroTermT, NegateOpts |-> None]

knownSrcField(src, field) ==
    IF src = EventTypeK8s
    THEN IF field.Field \in {FieldK8sEventReason, FieldK8sEventType, FieldK8sEventReasonDetail}
         THEN [t |-> [Field |-> field.Field,
                      TermValue |-> [Type |-> TermJqJson,
                                     Value |-> "select(." \o field.Field \o " == \""
                                               \o field.StrValue \o "\")"],
                      NegateOpts |-> None],
               err |-> NilErr]
         ELSE [t |-> ZeroAstField, err |-> Sentinel(ErrUnknownField)]
    ELSE [t |-> ZeroAstField, err |-> Sentinel(ErrUnknownSrc)]


\* newMatchTerm with the jq value stored as a raw term
newMatchTerm_JqAsRaw(src, field) ==
    LET known == knownSrcField(src, field)
        count == (IF field.StrValue # "" THEN 1 ELSE 0) + (IF field.JqValue # "" THEN 1 ELSE 0)
                 + (IF field.RegexValue # "" THEN 1 ELSE 0)
        tv == IF field.RegexValue # "" THEN [Type |-> TermRegex, Value |-> field.RegexValue]
              ELSE IF field.JqValue # "" THEN [Type |-> TermRaw, Value |-> field.JqValue]
              ELSE IF field.StrValue # "" THEN [Type |-> TermRaw, Value |-> field.StrValue]
              ELSE ZeroTermT
    IN IF ~IsErr(known.err) THEN known
       ELSE IF count > 1 THEN [t |-> ZeroAstField, err |-> Sentinel(ErrInvalidNodeType)]
       ELSE [t |-> [Field |-> field.Field, TermValue |-> tv, NegateOpts |-> None],
             err |-> NilErr]

newMatchTerm(src, field) ==
    LET known == knownSrcField(src, field)
        count == (IF field.StrValue # "" THEN 1 ELSE 0) + (IF field.JqValue # "" THEN 1 ELSE 0)
                 + (IF field.RegexValue # "" THEN 1 ELSE 0)
        \* the assignments to t.TermValue in order: the last one set stays
        tv == IF field.RegexValue # "" THEN [Type |-> TermRegex, Value |-> field.RegexValue]
              ELSE IF field.JqValue # "" THEN [Type |-> TermJqJson, Value |-> field.JqValue]
              ELSE IF field.StrValue # "" THEN [Type |-> TermRaw, Value |-> field.StrValue]
              ELSE ZeroTermT
    IN IF ~IsErr(known.err) THEN known
       ELSE IF count > 1 THEN [t |-> ZeroAstField, err |-> Sentinel(ErrInvalidNodeType)]
       ELSE [t |-> [Field |-> field.Field, TermValue |-> tv, NegateOpts |-> None],
             err |-> NilErr]

newNegateTerm(src, field) ==
    The({
        IF IsErr(m.err) THEN [t |-> ZeroAstField, err |-> m.err]
        ELSE IF IsSome(field.NegateOpts)
        THEN [t |-> [m.t EXCEPT !.NegateOpts = Some([Window |-> Val(field.NegateOpts).Window,
                                                     Slide |-> Val(field.NegateOpts).Slide,
                                                     Anchor |-> Val(field.NegateOpts).Anchor,
                                                     Absolute |-> Val(field.NegateOpts).Absolute])],
              err |-> NilErr]
        ELSE m :
        m \in {newMatchTerm(src, field)}})


\* validateLogSeq with the test on the positive conditions off by one
validateLogSeq_OffByOne(n, matches) ==
    IF matches < 1
    THEN Wrap(Pos(n.Metadata.Pos.Line, n.Metadata.Pos.Col), n.Metadata.RuleId,
              n.Metadata.RuleHash, n.Metadata.CreId, Sentinel(ErrSeqPosConditions))
    ELSE IF n.Metadata.Window = 0 THEN Sentinel(AstErrInvalidWindow)
    ELSE NilErr

validateLogSeq(n, matches) ==
    IF matches <= 1
    THEN Wrap(Pos(n.Metadata.Pos.Line, n.Metadata.Pos.Col), n.Metadata.RuleId,
              n.Metadata.RuleHash, n.Metadata.CreId, Sentinel(ErrSeqPosConditions))
    ELSE IF n.Metadata.Window = 0 THEN Sentinel(AstErrInvalidWindow)
    ELSE NilErr


\* validateLogSet without its second test
validateLogSet_FirstTestOnly(n, matches) ==
    IF matches = 1 /\ n.Metadata.Window # 0 THEN Sentinel(AstErrInvalidWindow)
    ELSE NilErr

validateLogSet(n, matches) ==
    IF matches = 1 /\ n.Metadata.Window # 0 THEN Sentinel(AstErrInvalidWindow)
    ELSE IF matches > 1 /\ n.Metadata.Window = 0 THEN Sentinel(AstErrInvalidWindow)
    ELSE NilErr


\* expandField with a loop that runs once too often
expandField_OneMore(src, field, negate) ==
    The({
        IF IsErr(term.err) THEN [terms |-> <<>>, err |-> term.err]
        ELSE [terms |-> [i \in 1..(IF field.Count > 1 THEN field.Count + 1 ELSE 1) |-> term.t],
              err |-> NilErr] :
        term \in {IF negate THEN newNegateTerm(src, field) ELSE newMatchTerm(src, field)}})

\* one field of a matcher, emitted Count times when Count > 1 and once otherwise
expandField(src, field, negate) ==
    The({
        IF IsErr(term.err) THEN [terms |-> <<>>, err |-> term.err]
        ELSE [terms |-> [i \in 1..(IF field.Count > 1 THEN field.Count ELSE 1) |-> term.t],
              err |-> NilErr] :
        term \in {IF negate THEN newNegateTerm(src, field) ELSE newMatchTerm(src, field)}})

RECURSIVE expandFields(_, _, _)
expandFields(src, fields, negate) ==
    IF Len(fields) = 0 THEN [terms |-> <<>>, err |-> NilErr]
    ELSE The({
        IF IsErr(first.err) THEN first
        ELSE The({
            IF IsErr(rest.err) THEN rest
            ELSE [terms |-> first.terms \o rest.terms, err |-> NilErr] :
            rest \in {expandFields(src, Tail(fields), negate)}}) :
        first \in {expandField(src, Head(fields), negate)}})

\* the loop of buildLogMatcherNode over the children of the parse node
RECURSIVE lowerChildren(_, _)
lowerChildren(src, children) ==
    IF Len(children) = 0 THEN [match |-> <<>>, negate |-> <<>>, err |-> NilErr]
    ELSE IF Head(children).kind # "matcher"
    THEN [match |-> <<>>, negate |-> <<>>, err |-> Sentinel(ErrMissingScalar)]
    ELSE The({
        IF IsErr(m.err) THEN [match |-> <<>>, negate |-> <<>>, err |-> m.err]
        ELSE The({
            IF IsErr(n.err) THEN [match |-> <<>>, negate |-> <<>>, err |-> n.err]
            ELSE The({
                IF IsErr(rest.err) THEN rest
                ELSE [match |-> m.terms \o rest.match,
                      negate |-> n.terms \o rest.negate, err |-> NilErr] :
                rest \in {lowerChildren(src, Tail(children))}}) :
            n \in {expandFields(src, Head(children).Negate.Fields, TRUE)}}) :
        m \in {expandFields(src, Head(children).Match.Fields, FALSE)}})

getLogMatchScope(parserNode) ==
    IF Val(parserNode.Metadata.Event).Source = EventTypeK8s THEN ScopeCluster ELSE ScopeNode

\* the address of a node: the rule hash, the kind, the owning machine's
\* address (nil for a root) and the term index handed to the node builder
newAstNodeAddress(machineAddress, ruleHash, name, termIdx) ==
    [RuleHash |-> ruleHash, Name |-> name, Machine |-> machineAddress, TermIdx |-> termIdx]

NoAddress == [RuleHash |-> "", Name |-> "", Machine |-> None, TermIdx |-> None]

NoAstNode ==
    [Address |-> NoAddress, ParentAddress |-> None, Type |-> "", Scope |-> "",
     Object |-> [Event |-> None, Match |-> <<>>, Negate |-> <<>>, Window |-> 0],
     Children |-> <<>>]

\* newAstNode: the node of a parse node, without its payload
newAstNode(parserNode, typ, scope, parent, address) ==
    [Address |-> address, ParentAddress |-> parent, Type |-> typ, Scope |-> scope,
     Object |-> [Event |-> None, Match |-> <<>>, Negate |-> <<>>, Window |-> 0],
     Children |-> <<>>]

\* doBuildLogMatcherNode that drops the term index of the address
doBuildLogMatcherNode_NoTermIdx(parserNode, machineAddress, termIdx, matchFields, negateFields) ==
    [node |-> [newAstNode(parserNode, parserNode.Metadata.Type, getLogMatchScope(parserNode),
                          machineAddress,
                          newAstNodeAddress(machineAddress, parserNode.Metadata.RuleHash,
                                            parserNode.Metadata.Type, None))
               EXCEPT !.Object = [Event |-> Some([Origin |-> Val(parserNode.Metadata.Event).Origin,
                                                  Source |-> Val(parserNode.Metadata.Event).Source]),
                                  Match |-> matchFields,
                                  Negate |-> negateFields,
                                  Window |-> parserNode.Metadata.Window]],
     err |-> NilErr]

doBuildLogMatcherNode(parserNode, machineAddress, termIdx, matchFields, negateFields) ==
    [node |-> [newAstNode(parserNode, parserNode.Metadata.Type, getLogMatchScope(parserNode),
                          machineAddress,
                          newAstNodeAddress(machineAddress, parserNode.Metadata.RuleHash,
                                            parserNode.Metadata.Type, termIdx))
               EXCEPT !.Object = [Event |-> Some([Origin |-> Val(parserNode.Metadata.Event).Origin,
                                                  Source |-> Val(parserNode.Metadata.Event).Source]),
                                  Match |-> matchFields,
                                  Negate |-> negateFields,
                                  Window |-> parserNode.Metadata.Window]],
     err |-> NilErr]

buildLogMatcherNode(parserNode, machineAddress, termIdx) ==
    The({
        IF IsErr(low.err) THEN [node |-> NoAstNode, err |-> low.err]
        ELSE The({
            IF IsErr(verr) THEN [node |-> NoAstNode, err |-> verr]
            ELSE doBuildLogMatcherNode(parserNode, machineAddress, termIdx,
                                       low.match, low.negate) :
            verr \in {CASE parserNode.Metadata.Type = NodeTypeLogSet ->
                               validateLogSet(parserNode, Len(low.match))
                        [] parserNode.Metadata.Type = NodeTypeLogSeq ->
                               validateLogSeq(parserNode, Len(low.match))
                        [] OTHER -> Sentinel(ErrInvalidNodeType)}}) :
        low \in {lowerChildren(Val(parserNode.Metadata.Event).Source, parserNode.Children)}})

(***************************************************************************)
(* The walk of the AST builder over a parse tree: a machine node for a     *)
(* composite without an event descriptor, a log matcher for one with an    *)
(* event descriptor.  The term index of a child counts the earlier         *)
(* siblings of its kind within the machine.                                *)
(***************************************************************************)
\* the term index of child i of a machine
termIdxOf(children, i) ==
    Cardinality({j \in 1..(i - 1) :
                    /\ children[j].kind = "node"
                    /\ children[j].Metadata.Type = children[i].Metadata.Type})

RECURSIVE buildMachineNode(_, _, _), buildMachineChildren(_, _, _)

\* the AST node of a parse node
buildAstNode(parserNode, machineAddress, termIdx) ==
    IF parserNode.kind # "node" THEN [node |-> NoAstNode, err |-> Sentinel(ErrInvalidNodeType)]
    ELSE IF IsSome(parserNode.Metadata.Event)
    THEN buildLogMatcherNode(parserNode, machineAddress, termIdx)
    ELSE buildMachineNode(parserNode, machineAddress, termIdx)

\* the AST nodes of the children of a machine, from child i on
buildMachineChildren(parserNode, address, i) ==
    IF i > Len(parserNode.Children) THEN [nodes |-> <<>>, err |-> NilErr]
    ELSE The({
        IF IsErr(first.err) THEN [nodes |-> <<>>, err |-> first.err]
        ELSE The({
            IF IsErr(rest.err) THEN rest
            ELSE [nodes |-> <<first.node>> \o rest.nodes, err |-> NilErr] :
            rest \in {buildMachineChildren(parserNode, address, i + 1)}}) :
        first \in {buildAstNode(parserNode.Children[i], Some(address),
                                IF parserNode.Children[i].kind = "node"
                                THEN Some(termIdxOf(parserNode.Children, i))
                                ELSE None)}})

buildMachineNode(parserNode, machineAddress, termIdx) ==
    The({
        The({
            IF IsErr(ch.err) THEN [node |-> NoAstNode, err |-> ch.err]
            ELSE [node |-> [newAstNode(parserNode, parserNode.Metadata.Type, ScopeNode,
                                       machineAddress, address)
                            EXCEPT !.Children = ch.nodes],
                  err |-> NilErr] :
            ch \in {buildMachineChildren(parserNode, address, 1)}}) :
        address \in {newAstNodeAddress(machineAddress, parserNode.Metadata.RuleHash,
                                       parserNode.Metadata.Type, termIdx)}})

\* the AST roots of the parse roots, from root i on
RECURSIVE buildAstRoots(_, _)
buildAstRoots(nodes, i) ==
    IF i > Len(nodes) THEN [Nodes |-> <<>>, err |-> NilErr]
    ELSE The({
        IF IsErr(first.err) THEN [Nodes |-> <<>>, err |-> first.err]
        ELSE The({
            IF IsErr(rest.err) THEN rest
            ELSE [Nodes |-> <<first.node>> \o rest.Nodes, err |-> NilErr] :
            rest \in {buildAstRoots(nodes, i + 1)}}) :
        first \in {buildAstNode(nodes[i], None, None)}})

(***************************************************************************)
(* parseTermsNode: the `terms` mapping as name -> ParseTermT (TermsT) and  *)
(* name -> yaml node (TermsY)                                              *)
(***************************************************************************)
parseTermsNode(n) ==
    IF n.Kind # "mapping"
    THEN [m |-> EmptyMap, p |-> EmptyMap, err |-> Sentinel(ErrTermsMapping)]
    ELSE IF \E i, j \in 1..Len(n.Keys) : i # j /\ n.Keys[i] = n.Keys[j]
    THEN [m |-> EmptyMap, p |-> EmptyMap, err |-> Sentinel(ErrDuplicateTerm)]
    ELSE [m |-> [keys |-> n.Keys, vals |-> [i \in 1..Len(n.Keys) |-> decodeTerm(n.Content[i])]],
          p |-> [keys |-> n.Keys, vals |-> n.Content],
          err |-> NilErr]

(***************************************************************************)
(* The expansion of buildTree, call by call.  The recursion of             *)
(* buildChildren -> nodeFromTerm -> buildSequenceNode / buildSetNode ->    *)
(* buildPosNegChildren -> buildChildren is a stack of frames, one for each *)
(* sequence or set under construction: the term it is built from and the   *)
(* entries of its lists that buildChildren has still to handle.            *)
(***************************************************************************)
\* resolveTerm without the lookup in the index
resolveTerm_NoLookup(tm, term) == term

\* the term buildChildren hands to nodeFromTerm for an entry of a list
resolveTerm(tm, term) ==
    IF term.StrValue # "" /\ MapHas(tm, term.StrValue)
    THEN IF IsSome(term.NegateOpts)
         THEN [MapGet(tm, term.StrValue) EXCEPT !.NegateOpts = term.NegateOpts]
         ELSE MapGet(tm, term.StrValue)
    ELSE term

\* nodeFromTerm builds a node of its own for a sequence or a set
IsComposite(term) == IsSome(term.Sequence) \/ IsSome(term.Set)

\* the entries buildPosNegChildren hands to buildChildren: the order/match
\* list first, then the negate list
childTerms(term) ==
    IF IsSome(term.Sequence)
    THEN [i \in 1..Len(Val(term.Sequence).Order.items) |->
             [t |-> Val(term.Sequence).Order.items[i], negate |-> FALSE]]
         \o [i \in 1..Len(Val(term.Sequence).Negate.items) |->
                [t |-> Val(term.Sequence).Negate.items[i], negate |-> TRUE]]
    ELSE [i \in 1..Len(Val(term.Set).Match.items) |->
             [t |-> Val(term.Set).Match.items[i], negate |-> FALSE]]
         \o [i \in 1..Len(Val(term.Set).Negate.items) |->
                [t |-> Val(term.Set).Negate.items[i], negate |-> TRUE]]

\* a frame: the name the term was found under ("" for the rule and for an
\* inline composite), the entry as the list has it, the term handed to
\* nodeFromTerm, and the entries still to handle
newFrame(name, entry, term) ==
    [name |-> name, entry |-> entry, term |-> term, rest |-> childTerms(term)]

\* indexAfter that stores the negate options of the reference in the index
indexAfter_WriteBack(tm, term) ==
    IF term.StrValue # "" /\ MapHas(tm, term.StrValue) /\ IsSome(term.NegateOpts)
    THEN [tm EXCEPT !.vals = [i \in 1..Len(tm.vals) |->
                                 IF tm.keys[i] = term.StrValue
                                 THEN [tm.vals[i] EXCEPT !.NegateOpts = term.NegateOpts]
                                 ELSE tm.vals[i]]]
    ELSE tm

\* the terms index after buildChildren handled an entry: resolvedTerm is a
\* copy of the map's value and the options are set on the copy, the map is
\* not written
indexAfter(tm, term) == tm

\* the error of a sequence or set once its children are built: seqNodeProps /
\* setNodeProps, then the negate options of nodeFromTerm
frameErr(term) ==
    LET window == IF IsSome(term.Sequence) THEN Val(term.Sequence).Window
                  ELSE Val(term.Set).Window
        list == IF IsSome(term.Sequence) THEN Val(term.Sequence).Order
                ELSE Val(term.Set).Match
    IN CASE list.nil ->
              Sentinel(IF IsSome(term.Sequence) THEN ErrMissingOrder ELSE ErrMissingMatch)
         [] ~list.nil /\ window # "" /\ ~ParseDuration(window).ok -> Sentinel(ErrInvalidWindow)
         [] OTHER -> IF IsSome(term.NegateOpts) THEN negateOpts(term).err ELSE NilErr

\* the error of an entry that is no sequence and no set: parseValue, or the
\* default case of nodeFromTerm
leafErr(term, negate) ==
    IF term.StrValue # "" \/ term.JqValue # "" \/ term.RegexValue # ""
    THEN parseValue(term, negate).err
    ELSE Sentinel(ErrTermNotFound)

\* the name an entry refers to, "" when it is no reference
refName(tm, term) == IF term.StrValue # "" /\ MapHas(tm, term.StrValue) THEN term.StrValue ELSE ""

\* the term of the root: the sequence or set of the rule
rootTerm(r) == [ZeroTerm EXCEPT !.Sequence = r.Rule.Sequence,
                                !.Set = IF IsSome(r.Rule.Sequence) THEN None ELSE r.Rule.Set]

(***************************************************************************)
(* Read: the rules and terms of a stream of documents.  A document is its  *)
(* root mapping; the empty document ("---") has no content.                *)
(***************************************************************************)
\* []ParseRuleT of a `rules` value
decodeRules(n) ==
    IF n.Tag = "!!null" THEN [rules |-> <<>>, err |-> NilErr]
    ELSE IF n.Kind # "sequence" THEN [rules |-> <<>>, err |-> Sentinel(ErrYamlUnmarshal)]
    ELSE [rules |-> [i \in 1..Len(n.Content) |-> decodeRule(n.Content[i])], err |-> NilErr]

\* the inner loop of checkDuplicates, over the identifiers of the rules
RECURSIVE checkIds(_, _)
checkIds(ids, seen) ==
    IF Len(ids) = 0 THEN [seen |-> seen, err |-> NilErr]
    ELSE IF Head(ids) \in seen THEN [seen |-> seen, err |-> Sentinel(ErrDuplicateId)]
    ELSE checkIds(Tail(ids), seen \cup {Head(ids)})

checkDuplicates(rules, seen) ==
    checkIds(Flatten([i \in 1..Len(rules) |->
                         <<rules[i].Metadata.Hash, rules[i].Metadata.Id, rules[i].Cre.Id>>]),
             seen)

mergeTerms(dst, dstPos, src, srcPos) ==
    IF \E i \in 1..Len(src.keys) : MapHas(dst, src.keys[i])
    THEN [dst |-> dst, dstPos |-> dstPos, err |-> Sentinel(ErrDuplicateTerm)]
    ELSE [dst |-> [keys |-> dst.keys \o src.keys, vals |-> dst.vals \o src.vals],
          dstPos |-> [keys |-> dstPos.keys \o srcPos.keys, vals |-> dstPos.vals \o srcPos.vals],
          err |-> NilErr]

\* Read before the first document
NoRules ==
    [Rules |-> <<>>, TermsT |-> EmptyMap, TermsY |-> EmptyMap, Root |-> NoNode,
     dupes |-> {}, err |-> NilErr]

\* case "rules" of the walk over the keys of a document
readRules(all, vNode, genIds) ==
    The({
        IF IsErr(d.err) THEN [all EXCEPT !.err = d.err]
        ELSE IF genIds THEN [all EXCEPT !.Rules = @ \o d.rules]
        ELSE The({
            IF IsErr(c.err) THEN [all EXCEPT !.err = c.err]
            ELSE [all EXCEPT !.Rules = @ \o d.rules, !.dupes = c.seen] :
            c \in {checkDuplicates(d.rules, all.dupes)}}) :
        d \in {decodeRules(vNode)}})

\* case "terms" of the walk over the keys of a document
readTerms(all, vNode) ==
    The({
        IF IsErr(t.err) THEN [all EXCEPT !.err = t.err]
        ELSE The({
            IF IsErr(m.err) THEN [all EXCEPT !.err = m.err]
            ELSE [all EXCEPT !.TermsT = m.dst, !.TermsY = m.dstPos] :
            m \in {mergeTerms(all.TermsT, all.TermsY, t.m, t.p)}}) :
        t \in {parseTermsNode(vNode)}})

\* the walk over the keys of a document, from key i on
RECURSIVE readKeys(_, _, _, _)
readKeys(all, root, i, genIds) ==
    IF i > Len(root.Keys) \/ IsErr(all.err) THEN all
    ELSE readKeys(CASE root.Keys[i] = "rules" -> readRules(all, root.Content[i], genIds)
                    [] root.Keys[i] = "terms" -> readTerms(all, root.Content[i])
                    [] OTHER -> all,
                  root, i + 1, genIds)

\* readDoc that takes the rules and terms of a version footer as well
readDoc_FooterRead(all, root, genIds) ==
    IF root.Kind = "nil" THEN all
    ELSE IF ~findChild(root, docRules).ok THEN [all EXCEPT !.err = Sentinel(ErrRulesNotFound)]
    ELSE readKeys([all EXCEPT !.Root = findChild(root, docRules).node], root, 1, genIds)

\* the body of the loop of Read: one document
readDoc(all, root, genIds) ==
    IF root.Kind = "nil" THEN all
    ELSE IF /\ findChild(root, docSection).ok
            /\ findChild(root, docSection).node.Kind = "scalar"
            /\ findChild(root, docSection).node.Value = docVersion
    THEN all
    ELSE IF ~findChild(root, docRules).ok THEN [all EXCEPT !.err = Sentinel(ErrRulesNotFound)]
    ELSE readKeys([all EXCEPT !.Root = findChild(root, docRules).node], root, 1, genIds)

RECURSIVE readLoop(_, _, _)
readLoop(all, stream, genIds) ==
    IF Len(stream) = 0 \/ IsErr(all.err) THEN all
    ELSE readLoop(readDoc(all, Head(stream), genIds), Tail(stream), genIds)

\* Read: nil and the error, or the rules, the terms and the last `rules` node
Read(stream, genIds) ==
    The({
        IF IsErr(all.err)
        THEN [Rules |-> <<>>, TermsT |-> EmptyMap, TermsY |-> EmptyMap, Root |-> NoNode,
              err |-> all.err]
        ELSE [Rules |-> all.Rules, TermsT |-> all.TermsT, TermsY |-> all.TermsY,
              Root |-> all.Root, err |-> NilErr] :
        all \in {readLoop(NoRules, stream, genIds)}})

(***************************************************************************)
(* parseRules: one parse root for each rule                                *)
(***************************************************************************)
\* the identifiers WithGenIds generates for a rule that lacks them
genIdsOf(rule) ==
    The({
        IF r.Metadata.Hash = "" THEN [r EXCEPT !.Metadata.Hash = HashRule(r)] ELSE r :
        r \in {IF rule.Metadata.Id = ""
                THEN [rule EXCEPT !.Metadata.Id = Hash(rule.Cre.Id)]
                ELSE rule}})

\* the body of the loop of parseRules: the root of rule i (from 0)
parseRule(rule, i, termsT, rulesRoot, termsY, genIds) ==
    IF ~seqItem(rulesRoot, i).ok
    THEN [node |-> NoNodeT, err |-> Sentinel(ErrRuleNotFound)]
    ELSE buildTree(termsT, IF genIds THEN genIdsOf(rule) ELSE rule,
                   seqItem(rulesRoot, i).node, termsY)

\* the loop of parseRules from rule i on
RECURSIVE parseRulesFrom(_, _, _, _, _, _)
parseRulesFrom(rules, i, termsT, rulesRoot, termsY, genIds) ==
    IF i >= Len(rules) THEN [Nodes |-> <<>>, err |-> NilErr]
    ELSE The({
        IF IsErr(first.err) THEN [Nodes |-> <<>>, err |-> first.err]
        ELSE The({
            IF IsErr(rest.err) THEN rest
            ELSE [Nodes |-> <<first.node>> \o rest.Nodes, err |-> NilErr] :
            rest \in {parseRulesFrom(rules, i + 1, termsT, rulesRoot, termsY, genIds)}}) :
        first \in {parseRule(rules[i + 1], i, termsT, rulesRoot, termsY, genIds)}})

parseRules(rules, termsT, rulesRoot, termsY, genIds) ==
    parseRulesFrom(rules, 0, termsT, rulesRoot, termsY, genIds)

ParseRules(config, genIds) ==
    parseRules(config.Rules, config.TermsT, config.Root, config.TermsY, genIds)

\* Read followed by ParseRules, with the same options
Compile(stream, genIds) ==
    The({
        IF IsErr(config.err) THEN [config |-> config, Nodes |-> <<>>, err |-> config.err]
        ELSE The({[config |-> config, Nodes |-> tree.Nodes, err |-> tree.err] :
                  tree \in {ParseRules(config, genIds)}}) :
        config \in {Read(stream, genIds)}})

(***************************************************************************)
(* The documents of the model.                                             *)
(***************************************************************************)
\* one document with one rule and a terms mapping, positions assigned
YDoc(rule, terms) ==
    Place(YMapOf(<< <<docRules, YSeq(<<rule>>)>>, <<docTerms, terms>> >>), 1, 0)

\* the single rule of a document
RuleNodeOf(doc) == seqItem(findChild(doc, docRules).node, 0).node

\* the terms index as Read decoded it from a document
IndexOf(doc) == parseTermsNode(findChild(doc, docTerms).node)

\* the parse of the single rule of a document
ParseDoc(doc) ==
    The({buildTree(terms.m, decodeRule(RuleNodeOf(doc)), RuleNodeOf(doc), terms.p) :
         terms \in {parseTermsNode(findChild(doc, docTerms).node)}})

\* the entries of the order/match lists of the log matchers
LogFieldPool ==
    {YScalar("A"),
     YField("", "B", "", "", 1),
     YField("", "C", "", "", MaxCount),
     YField("reason", "Killing", "", "", 0),
     YField("", "A", ".a", "", 0)}
LogNegatePool == {<<>>, <<YScalar("N")>>}
LogWindows == {None, Some(YScalar("10s"))}
LogKinds == {<<docSeq, docOrder>>, <<docSet, docMatch>>}
LogSources == {"k8s", "nginx"}

\* a rule whose root is a sequence or set with an event descriptor
LogDoc(kind, w, src, fields, neg) ==
    YDoc(YRule(GoodId, GoodHash, GoodCre,
               Some(YMapOf(<< <<kind[1],
                   YComposite(w, Some(YEvent(src, TRUE)), kind[2], Some(YSeq(fields)),
                              IF Len(neg) = 0 THEN None ELSE Some(YSeq(neg)))>> >>))),
         YMapOf(<<>>))

\* parser.FieldT values handed to newMatchTerm and newNegateTerm: parseValue
\* builds a field only from a term that has a value
Sources == {"k8s", "nginx", ""}
FieldNames == {"", "reason", "type", "reasonDetail", "message"}
FieldTs ==
    {f \in
    [Field : FieldNames, StrValue : {"", "Killing"}, JqValue : {"", ".a"},
     RegexValue : {"", "r+"}, Count : {0},
     NegateOpts : {None, Some([Window |-> 5, Slide |-> 0, Anchor |-> 1, Absolute |-> FALSE])},
     Extract : {<<>>}] :
        f.StrValue # "" \/ f.JqValue # "" \/ f.RegexValue # ""}

\* longest order/match list of the generated rule roots
MaxOrder == 2

\* a negate-options mapping { window, absolute }
YNegOpts(window, absolute) ==
    YMapOf(<< <<docWindow, YScalar(window)>>, <<"absolute", YBool(absolute)>> >>)

\* a reference to a term that supplies negate options of its own
YRef(name, opts) == YMapOf(<< <<"value", YScalar(name)>>, <<docNegate, opts>> >>)

\* the terms of the documents:
\*   term1  a log sequence with a counted field and a negated field
\*   term2  a log set that defines negate options of its own
\*   term3  a field-spec that defines negate options of its own
\*   term4  a sequence of term1 and an inline set, negated by term2
TreeTerms ==
    YMapOf(<<
      <<"term1", YInline(docSeq,
           YComposite(Some(YScalar("10s")), Some(YEvent("nginx", TRUE)), docOrder,
                      Some(YSeq(<<YScalar("A"), YField("", "B", "", "", 2)>>)),
                      Some(YSeq(<<YScalar("N")>>))))>>,
      <<"term2", YMapOf(<<
           <<docSet, YComposite(None, Some(YEvent("k8s", FALSE)), docMatch,
                                Some(YSeq(<<YField("reason", "Killing", "", "", 0)>>)), None)>>,
           <<docNegate, YNegOpts("5s", FALSE)>> >>)>>,
      <<"term3", YMapOf(<< <<"regex", YScalar("r+")>>,
                           <<docNegate, YNegOpts("5s", FALSE)>> >>)>>,
      <<"term4", YInline(docSeq,
           YComposite(Some(YScalar("5s")), None, docOrder,
                      Some(YSeq(<<YScalar("term1"),
                                  YInline(docSet,
                                      YComposite(None, Some(YEvent("nginx", FALSE)), docMatch,
                                                 Some(YSeq(<<YScalar("A")>>)), None))>>)),
                      Some(YSeq(<<YScalar("term2")>>))))>>
    >>)

\* the entries of the order/match list of a rule root
TreePosPool ==
    {YScalar("A"),
     YScalar("term1"),
     YScalar("term2"),
     YRef("term2", YNegOpts("1s", TRUE)),
     YScalar("term3"),
     YScalar("term4"),
     YInline(docSeq, YComposite(Some(YScalar("1s")), None, docOrder, Some(YSeq(<<>>)), None)),
     YInline(docSeq, YComposite(Some(YScalar("1s")), None, docOrder, None, None))}

\* the entries of the negate list of a rule root
TreeNegPool ==
    {YScalar("N"),
     YScalar("term2"),
     YRef("term2", YNegOpts("1s", TRUE)),
     YScalar("term3"),
     YRef("term3", YNegOpts("1s", TRUE)),
     YRef("term1", YNegOpts("soon", FALSE)),
     YMapOf(<<>>)}

\* the order/match key of a root: absent, null, empty or a list
TreePosLists ==
    {None, Some(YNull), Some(YSeq(<<>>))}
    \cup {Some(YSeq(s)) : s \in SeqsOf(TreePosPool, 1, MaxOrder)}
TreeNegLists == {None} \cup {Some(YSeq(s)) : s \in SeqsOf(TreeNegPool, 0, 1)}

\* a rule whose root is a sequence or set over the terms
TreeDoc(kind, pos, neg) ==
    YDoc(YRule(GoodId, GoodHash, GoodCre,
               Some(YInline(kind[1], YComposite(Some(YScalar("30s")), None, kind[2], pos, neg)))),
         TreeTerms)

\* the bodies of the `rule` key: absent, neither sequence nor set, one of
\* them, both, and with one of them null
TreeSeqBody == YComposite(Some(YScalar("30s")), None, docOrder, Some(YSeq(<<YScalar("A")>>)), None)
TreeSetBody == YComposite(None, None, docMatch, Some(YSeq(<<YScalar("B")>>)), None)
TreeBodies ==
    {None,
     Some(YMapOf(<<>>)),
     Some(YMapOf(<< <<docSeq, TreeSeqBody>> >>)),
     Some(YMapOf(<< <<docSet, TreeSetBody>> >>)),
     Some(YMapOf(<< <<docSeq, TreeSeqBody>>, <<docSet, TreeSetBody>> >>)),
     Some(YMapOf(<< <<docSet, TreeSetBody>>, <<docSeq, TreeSeqBody>> >>)),
     Some(YMapOf(<< <<docSeq, YNull>>, <<docSet, TreeSetBody>> >>)),
     Some(YMapOf(<< <<docSeq, YNull>>, <<docSet, YNull>> >>))}
BodyDoc(body) == YDoc(YRule(GoodId, GoodHash, GoodCre, body), TreeTerms)

\* a field-spec with extract declarations of the given names
YExtractLeaf(value, names) ==
    YMapOf(<< <<"value", YScalar(value)>>,
              <<"extract", YSeq([i \in 1..Len(names) |->
                                   YMapOf(<< <<"name", YScalar(names[i])>>,
                                             <<"jq", YScalar(".a")>> >>)])>> >>)

\* the names of the extract declarations: one the pattern accepts, one it
\* rejects
ExtractNames == {"host", "1bad"}
ExtractLists == SeqsOf(ExtractNames, 0, 2)

\* a rule whose root holds one positive leaf and at most one negated leaf,
\* each with extract declarations
ExtractDoc(kind, event, posNames, negNames) ==
    YDoc(YRule(GoodId, GoodHash, GoodCre,
               Some(YInline(kind[1],
                    YComposite(Some(YScalar("30s")),
                               IF event THEN Some(YEvent("nginx", TRUE)) ELSE None,
                               kind[2],
                               Some(YSeq(<<YExtractLeaf("A", posNames)>>)),
                               IF IsNone(negNames) THEN None
                               ELSE Some(YSeq(<<YExtractLeaf("N", Val(negNames))>>)))))),
         YMapOf(<<>>))

\* the window strings of the composite under test: two that
\* time.ParseDuration rejects and one it accepts
WindowStrings == {"soon", "1x", "10s"}
WindowPlaces == {"root", "term", "inline"}

\* a sequence or set of two leaves with the given window
WindowBlock(kind, window, event) ==
    YInline(kind[1],
        YComposite(Some(YScalar(window)),
                   IF event THEN Some(YEvent("nginx", TRUE)) ELSE None,
                   kind[2], Some(YSeq(<<YScalar("A"), YScalar("B")>>)), None))

\* a rule with the window under test on its root, on a term the root
\* refers to, or on a composite written inline in the root's list
WindowDoc(place, rootKind, kind, window, event) ==
    YDoc(YRule(GoodId, GoodHash, GoodCre,
               Some(CASE place = "root" -> WindowBlock(kind, window, event)
                      [] place = "term" ->
                           YInline(rootKind[1],
                               YComposite(Some(YScalar("30s")), None, rootKind[2],
                                          Some(YSeq(<<YScalar("termW")>>)), None))
                      [] place = "inline" ->
                           YInline(rootKind[1],
                               YComposite(Some(YScalar("30s")), None, rootKind[2],
                                          Some(YSeq(<<WindowBlock(kind, window, event)>>)),
                                          None)))),
         IF place = "term" THEN YMapOf(<< <<"termW", WindowBlock(kind, window, event)>> >>)
         ELSE YMapOf(<<>>))

\* the sequence/set mapping that holds the window under test
WindowBlockNode(doc, place, rootKind, kind) ==
    CASE place = "root" ->
           findChild(findChild(RuleNodeOf(doc), docRule).node, kind[1]).node
      [] place = "term" ->
           findChild(findChild(findChild(doc, docTerms).node, "termW").node, kind[1]).node
      [] place = "inline" ->
           findChild(seqItem(findChild(findChild(findChild(RuleNodeOf(doc), docRule).node,
                                                 rootKind[1]).node,
                                       rootKind[2]).node, 0).node,
                     kind[1]).node

\* deepest stack of frames the expansion is followed to
MaxDepth == 4

\* the order and negate lists of the terms t1 and t2: plain strings and
\* references to t1 and t2
ExpandOrders ==
    {<<YScalar("A")>>, <<YScalar("t1")>>, <<YScalar("t2")>>,
     <<YScalar("A"), YScalar("t2")>>, <<YScalar("t1"), YScalar("A")>>}
ExpandNegates == {None, Some(YSeq(<<YScalar("t1")>>)), Some(YSeq(<<YScalar("t2")>>))}

\* the order list of the rule; the empty mapping is an entry that is neither
\* a value nor a sequence nor a set
ExpandRoots ==
    {<<YScalar("A")>>, <<YScalar("t1")>>, <<YScalar("t2")>>,
     <<YScalar("A"), YScalar("t1")>>, <<YMapOf(<<>>), YScalar("t1")>>,
     <<YRef("t2", YNegOpts("1s", TRUE)), YScalar("t2")>>}

\* a rule over an index of two sequence terms, the second with negate
\* options of its own
ExpandDoc(root, o1, n1, o2, n2) ==
    YDoc(YRule(GoodId, GoodHash, GoodCre,
               Some(YInline(docSeq, YComposite(Some(YScalar("30s")), None, docOrder,
                                               Some(YSeq(root)), None)))),
         YMapOf(<<
           <<"t1", YInline(docSeq, YComposite(Some(YScalar("10s")), None, docOrder,
                                              Some(YSeq(o1)), n1))>>,
           <<"t2", YMapOf(<<
                <<docSeq, YComposite(Some(YScalar("5s")), None, docOrder, Some(YSeq(o2)), n2)>>,
                <<docNegate, YNegOpts("5s", FALSE)>> >>)>> >>))

\* a field-spec { field?, value, count?, extract? }
YFieldSpec(field, value, count, names) ==
    YMapOf(OptPair("field", IF field = "" THEN None ELSE Some(YScalar(field)))
           \o << <<"value", YScalar(value)>> >>
           \o OptPair("count", IF count = 0 THEN None ELSE Some(YInt(count)))
           \o OptPair("extract",
                      IF Len(names) = 0 THEN None
                      ELSE Some(YSeq([i \in 1..Len(names) |->
                                         YMapOf(<< <<"name", YScalar(names[i])>>,
                                                   <<"jq", YScalar(".a")>> >>)]))))

\* the values of the field-specs: the names of a sequence term and of a
\* field-spec term of the index, and a string that names no term
FieldSpecValues == {"term1", "term3", "X"}

\* a rule whose root holds the field-spec as its positive entry, or the
\* plain string A and the field-spec as its negated entry
FieldSpecDoc(kind, entry, negated) ==
    YDoc(YRule(GoodId, GoodHash, GoodCre,
               Some(YInline(kind[1],
                    YComposite(Some(YScalar("30s")), None, kind[2],
                               Some(YSeq(IF negated THEN <<YScalar("A")>> ELSE <<entry>>)),
                               IF negated THEN Some(YSeq(<<entry>>)) ELSE None)))),
         TreeTerms)

\* most rules of a document handed to Build
MaxRules == 2

\* the rule bodies of the forests: a sequence over one or two of the terms
\* (log sequence, log set, nested machine) and of a plain string
ForestBodies ==
    {YInline(docSeq, YComposite(Some(YScalar("30s")), None, docOrder, Some(YSeq(order)), None)) :
        order \in SeqsOf({YScalar("term1"), YScalar("term2"), YScalar("term4"), YScalar("A")},
                         1, 2)}

\* rule i of a forest document has identifiers of its own
ForestRule(i, body) ==
    IF i = 1 THEN YRule(GoodId, GoodHash, GoodCre, Some(body))
    ELSE YRule(OtherId, OtherHash, OtherCre, Some(body))

ForestDoc(bodies) ==
    YMapOf(<< <<docRules, YSeq([i \in 1..Len(bodies) |-> ForestRule(i, bodies[i])])>>,
              <<docTerms, TreeTerms>> >>)

\* Build: document-read, parse, AST rewrite
Build(stream) ==
    The({
        IF IsErr(tree.err) THEN [Nodes |-> <<>>, err |-> tree.err]
        ELSE buildAstRoots(tree.Nodes, 1) :
        tree \in {Compile(stream, FALSE)}})

\* longest stream of documents
MaxDocs == 3

\* the terms of a document of a stream
StreamTerms == YMapOf(<< <<"t1", YMapOf(<< <<"regex", YScalar("r+")>> >>)>> >>)

\* a version footer, which holds a rule and terms of its own
StreamFooter ==
    YMapOf(<< <<docSection, YScalar(docVersion)>>,
              <<docRules, YSeq(<<StreamRules.b>>)>>,
              <<docTerms, StreamTerms>> >>)

\* the documents of the streams: rules with and without terms, no rule, the
\* footer, the empty document and a document without a `rules` key
StreamDocs ==
    {YMapOf(<< <<docRules, YSeq(<<StreamRules.a>>)>>, <<docTerms, StreamTerms>> >>),
     YMapOf(<< <<docRules, YSeq(<<StreamRules.b>>)>> >>),
     YMapOf(<< <<docRules, YSeq(<<StreamRules.a, StreamRules.b>>)>> >>),
     YMapOf(<< <<docRules, YSeq(<<StreamRules.a, StreamRules.dupId>>)>> >>),
     YMapOf(<< <<docRules, YSeq(<<>>)>> >>),
     YMapOf(<< <<docRules, YSeq(<<StreamRules.noId>>)>> >>),
     YMapOf(<< <<docRules, YSeq(<<StreamRules.noHash>>)>> >>),
     YMapOf(<< <<docRules, YSeq(<<StreamRules.noBoth>>)>> >>),
     YMapOf(<< <<docRules, YSeq(<<StreamRules.crossId>>)>> >>),
     YMapOf(<< <<docTerms, YMapOf(<<>>)>> >>),
     StreamFooter,
     NoNode}

\* document i of a stream starts at line i
PlaceStream(docs) == [i \in 1..Len(docs) |-> Place(docs[i], i, 0)]

\* the rules handed to HashRule and StableHash
HashedRules ==
    {[r EXCEPT !.Metadata.Gen = g, !.Metadata.Version = v, !.Metadata.Hash = h] :
        r \in {decodeRule(StreamRules.a), decodeRule(StreamRules.b)},
        g \in {0, 1}, v \in {"", "1.0.0"}, h \in {"", GoodHash, OtherHash}}

\* the arguments buildTree gets for the rule of a document
TreeArg(doc) ==
    [doc |-> doc,
     r |-> decodeRule(RuleNodeOf(doc)),
     termsT |-> parseTermsNode(findChild(doc, docTerms).node).m]

(***************************************************************************)
(* The specification: each action applies one builder to one input; a     *)
(* behaviour is one call.                                                  *)
(***************************************************************************)
VARIABLES op, arg, res

vars == <<op, arg, res, digests>>

Init ==
    /\ op = "init"
    /\ arg = <<>>
    /\ res = <<>>
    /\ digests = Base58Digests

NewMatchTerm ==
    \E src \in Sources, field \in FieldTs :
        /\ op = "init"
        /\ op' = "newMatchTerm"
        /\ UNCHANGED digests
        /\ arg' = [src |-> src, field |-> field]
        /\ res' = newMatchTerm(src, field)

NewNegateTerm ==
    \E src \in Sources, field \in FieldTs :
        /\ op = "init"
        /\ op' = "newNegateTerm"
        /\ UNCHANGED digests
        /\ arg' = [src |-> src, field |-> field]
        /\ res' = newNegateTerm(src, field)

\* the log matcher of a parsed log_seq or log_set node
BuildLogMatcherNode ==
    \E kind \in LogKinds, w \in LogWindows, src \in LogSources,
       fields \in SeqsOf(LogFieldPool, 0, MaxFields), neg \in LogNegatePool :
        \E doc \in {LogDoc(kind, w, src, fields, neg)} :
            \E parsed \in {ParseDoc(doc)} :
                /\ op = "init"
                /\ ~IsErr(parsed.err)
                /\ IsSome(parsed.node.Metadata.Event)
                /\ op' = "buildLogMatcherNode"
                /\ UNCHANGED digests
                /\ arg' = [doc |-> doc, parserNode |-> parsed.node]
                /\ res' = buildLogMatcherNode(parsed.node, None, None)

\* the AST forest of a document of one or more rules
BuildForest ==
    \E bodies \in SeqsOf(ForestBodies, 1, MaxRules) :
        \E stream \in {PlaceStream(<<ForestDoc(bodies)>>)} :
            /\ op = "init"
            /\ op' = "build"
            /\ UNCHANGED digests
            /\ arg' = [stream |-> stream]
            /\ res' = Build(stream)

NextAst ==
    \/ NewMatchTerm
    \/ NewNegateTerm
    \/ BuildLogMatcherNode
    \/ BuildForest

\* the parse tree of a rule over the terms
BuildTree ==
    \E kind \in LogKinds, pos \in TreePosLists, neg \in TreeNegLists :
        \E doc \in {TreeDoc(kind, pos, neg)} :
            /\ op = "init"
            /\ op' = "buildTree"
            /\ UNCHANGED digests
            /\ arg' = TreeArg(doc)
            /\ res' = ParseDoc(doc)

\* the parse tree of each shape of rule body
BuildTreeBody ==
    \E body \in TreeBodies :
        \E doc \in {BodyDoc(body)} :
            /\ op = "init"
            /\ op' = "buildTree"
            /\ UNCHANGED digests
            /\ arg' = TreeArg(doc)
            /\ res' = ParseDoc(doc)

\* the parse tree of a rule whose leaves declare extracts
BuildTreeExtract ==
    \E kind \in LogKinds, event \in BOOLEAN, posNames \in ExtractLists,
       negNames \in {None} \cup {Some(l) : l \in ExtractLists} :
        \E doc \in {ExtractDoc(kind, event, posNames, negNames)} :
            /\ op = "init"
            /\ op' = "buildExtract"
            /\ UNCHANGED digests
            /\ arg' = [doc |-> doc, posNames |-> posNames, negNames |-> negNames]
            /\ res' = ParseDoc(doc)

\* the parse tree of a rule with a field-spec whose value may name a term
BuildTreeFieldSpec ==
    \E kind \in LogKinds, field \in {"", "reason"}, value \in FieldSpecValues,
       count \in {0, 2}, names \in {<<>>, <<"host">>}, negated \in BOOLEAN :
        \E entry \in {YFieldSpec(field, value, count, names)} :
            \E doc \in {FieldSpecDoc(kind, entry, negated)} :
                /\ op = "init"
                /\ op' = "buildFieldSpec"
                /\ UNCHANGED digests
                /\ arg' = [doc |-> doc, entry |-> decodeTerm(entry), negated |-> negated,
                           termsT |-> IndexOf(doc).m]
                /\ res' = ParseDoc(doc)

\* the parse tree of a rule with the window under test on one composite
BuildTreeWindow ==
    \E place \in WindowPlaces, rootKind \in LogKinds, kind \in LogKinds,
       window \in WindowStrings, event \in BOOLEAN :
        \E doc \in {WindowDoc(place, rootKind, kind, window, event)} :
            \E block \in {WindowBlockNode(doc, place, rootKind, kind)} :
                /\ op = "init"
                /\ op' = "buildWindow"
                /\ UNCHANGED digests
                /\ arg' = [doc |-> doc, place |-> place, kind |-> kind[1], window |-> window,
                           block |-> Pos(block.Line, block.Column),
                           win |-> Pos(findChild(block, docWindow).node.Line,
                                       findChild(block, docWindow).node.Column)]
                /\ res' = ParseDoc(doc)

NextTree ==
    \/ BuildTree
    \/ BuildTreeBody
    \/ BuildTreeExtract
    \/ BuildTreeWindow
    \/ BuildTreeFieldSpec

\* Read followed by ParseRules on a stream of documents
CompileStream ==
    \E docs \in SeqsOf(StreamDocs, 1, MaxDocs), genIds \in BOOLEAN :
        \E stream \in {PlaceStream(docs)} :
            /\ op = "init"
            /\ op' = "compile"
            /\ UNCHANGED digests
            /\ arg' = [stream |-> stream, genIds |-> genIds]
            /\ res' = Compile(stream, genIds)

\* HashRule and StableHash of two rules; r1 and r2 of the result are the
\* caller's rules after the calls
HashRules ==
    \E r1, r2 \in HashedRules :
        /\ op = "init"
        /\ op' = "hash"
        /\ UNCHANGED digests
        /\ arg' = [r1 |-> r1, r2 |-> r2]
        /\ res' = [stable1 |-> StableHash(r1), stable2 |-> StableHash(r2),
                   hash1 |-> HashRule(r1), hash2 |-> HashRule(r2),
                   r1 |-> r1, r2 |-> r2]

\* Read followed by ParseRules on 41-nested.yaml
CompileExample ==
    \E genIds \in BOOLEAN :
        \E stream \in {PlaceStream(<<NestedDoc>>)} :
            /\ op = "init"
            /\ op' = "compileExample"
            /\ UNCHANGED digests
            /\ arg' = [stream |-> stream, genIds |-> genIds]
            /\ res' = Compile(stream, genIds)

NextRead ==
    \/ CompileStream
    \/ HashRules
    \/ CompileExample

\* buildTree is called: the frame of the root
ExpandStart ==
    \E root \in ExpandRoots, o1 \in ExpandOrders, n1 \in ExpandNegates,
       o2 \in ExpandOrders, n2 \in ExpandNegates :
        \E doc \in {ExpandDoc(root, o1, n1, o2, n2)} :
            \E a \in {TreeArg(doc)} :
                /\ op = "init"
                /\ op' = "expand"
                /\ UNCHANGED digests
                /\ arg' = a
                /\ res' = [stack |-> <<newFrame("", ZeroTerm, rootTerm(a.r))>>,
                           returned |-> FALSE, err |-> NilErr]

\* one step of the expansion: the innermost frame returns when its lists
\* are done, otherwise buildChildren handles its next entry, which opens a
\* frame when it is a sequence or set and is a leaf otherwise; an error ends
\* the call
ExpandStep ==
    /\ op = "expand"
    /\ ~res.returned
    /\ \E top \in {res.stack[Len(res.stack)]} :
         IF Len(top.rest) = 0
         THEN \E e \in {frameErr(top.term)} :
                 /\ res' = IF IsErr(e) THEN [res EXCEPT !.returned = TRUE, !.err = e]
                           ELSE [res EXCEPT !.stack = SubSeq(@, 1, Len(@) - 1),
                                            !.returned = (Len(res.stack) = 1)]
                 /\ arg' = arg
         ELSE \E entry \in {Head(top.rest)} :
              \E t \in {resolveTerm(arg.termsT, entry.t)} :
                 /\ arg' = [arg EXCEPT !.termsT = indexAfter(@, entry.t)]
                 /\ IF IsComposite(t)
                    THEN /\ Len(res.stack) < MaxDepth
                         /\ res' = [res EXCEPT
                               !.stack = [@ EXCEPT ![Len(@)].rest = Tail(top.rest)]
                                         \o <<newFrame(refName(arg.termsT, entry.t),
                                                       entry.t, t)>>]
                    ELSE \E e \in {leafErr(t, entry.negate)} :
                         res' = IF IsErr(e) THEN [res EXCEPT !.returned = TRUE, !.err = e]
                                ELSE [res EXCEPT !.stack[Len(res.stack)].rest = Tail(top.rest)]
    /\ UNCHANGED <<op, digests>>

NextExpand ==
    \/ ExpandStart
    \/ ExpandStep

Next ==
    \/ NextAst
    \/ NextTree
    \/ NextRead
    \/ NextExpand

\* every builder
Spec == Init /\ [][Next]_vars
\* the builders of pkg/ast
SpecAst == Init /\ [][NextAst]_vars
\* the builders of pkg/parser
SpecTree == Init /\ [][NextTree]_vars
\* Read, ParseRules and the rule hashes
SpecRead == Init /\ [][NextRead]_vars
\* the expansion of buildTree call by call; a call that can go on does
SpecExpand == Init /\ [][NextExpand]_vars /\ WF_vars(ExpandStep)

(***************************************************************************)
(* Properties of the log matcher builder.                                  *)
(***************************************************************************)
\* the positive fields of a parse node, in the order of its children
PosFields(n) == Flatten([i \in 1..Len(n.Children) |-> n.Children[i].Match.Fields])
NegFields(n) == Flatten([i \in 1..Len(n.Children) |-> n.Children[i].Negate.Fields])

\* the number of positive match fields after count expansion
ExpandedCount(n) == SumSeq([i \in 1..Len(PosFields(n)) |-> Max(1, PosFields(n)[i].Count)])

\* every field of the node has at most one of value, jq and regex, so that
\* the lowering of the fields reaches the validation of the node
ValuesSet(f) ==
    (IF f.StrValue # "" THEN 1 ELSE 0) + (IF f.JqValue # "" THEN 1 ELSE 0)
    + (IF f.RegexValue # "" THEN 1 ELSE 0)
FieldsLower(n) ==
    /\ \A i \in 1..Len(PosFields(n)) : ValuesSet(PosFields(n)[i]) <= 1
    /\ \A i \in 1..Len(NegFields(n)) : ValuesSet(NegFields(n)[i]) <= 1

IsLogCall(type) == op = "buildLogMatcherNode" /\ arg.parserNode.Metadata.Type = type
Accepted == ~IsErr(res.err)

\* C1: a log_seq node whose fields lower is rejected with ErrSeqPosConditions
\* when it has fewer than 2 positive fields after count expansion, else with
\* ErrInvalidWindow when its window is zero, and is accepted otherwise; every
\* accepted log_seq node has at least 2 positive fields and a non-zero window.
C1_LogSeqValidation ==
    IsLogCall(NodeTypeLogSeq) =>
        LET n == arg.parserNode
            k == ExpandedCount(n)
        IN /\ Accepted => (k >= 2 /\ n.Metadata.Window # 0)
           /\ (FieldsLower(n) /\ k < 2) => res.err.cause = ErrSeqPosConditions
           /\ (FieldsLower(n) /\ k >= 2 /\ n.Metadata.Window = 0)
                 => res.err.cause = AstErrInvalidWindow
           /\ (FieldsLower(n) /\ k >= 2 /\ n.Metadata.Window # 0) => Accepted

\* an accepted log_seq node that count expansion brings to 2 or more fields
C1_Witness ==
    /\ IsLogCall(NodeTypeLogSeq)
    /\ Accepted
    /\ Len(PosFields(arg.parserNode)) = 1
    /\ ExpandedCount(arg.parserNode) >= 2
    /\ arg.parserNode.Metadata.Window = 10

\* C2: a log_set node with exactly one positive field (after count
\* expansion) is accepted only with a zero window, one with more than one
\* only with a non-zero window; a node whose fields lower and that violates
\* either rule fails with ErrInvalidWindow.
C2_LogSetValidation ==
    IsLogCall(NodeTypeLogSet) =>
        LET n == arg.parserNode
            k == ExpandedCount(n)
        IN /\ (Accepted /\ k = 1) => n.Metadata.Window = 0
           /\ (Accepted /\ k > 1) => n.Metadata.Window # 0
           /\ (FieldsLower(n) /\ k = 1 /\ n.Metadata.Window # 0)
                 => res.err.cause = AstErrInvalidWindow
           /\ (FieldsLower(n) /\ k > 1 /\ n.Metadata.Window = 0)
                 => res.err.cause = AstErrInvalidWindow

\* a log_set with one positive field and a window, rejected
C2_Witness ==
    /\ IsLogCall(NodeTypeLogSet)
    /\ ExpandedCount(arg.parserNode) = 1
    /\ arg.parserNode.Metadata.Window = 10
    /\ res.err.cause = AstErrInvalidWindow

\* C24: every log_set node that buildLogMatcherNode accepts has at least one
\* positive match field; a set with an event descriptor and an empty match
\* list (negated fields only, or no field at all) is rejected, whatever its
\* window.
C24_LogSetHasPositive ==
    IsLogCall(NodeTypeLogSet) =>
        /\ Accepted => (ExpandedCount(arg.parserNode) >= 1 /\ Len(res.node.Object.Match) >= 1)
        /\ Len(PosFields(arg.parserNode)) = 0 => ~Accepted

\* the Match entries that field i of the node contributes: those after the
\* entries of the fields before it
EntriesBefore(n, i) == SumSeq([j \in 1..(i - 1) |-> Max(1, PosFields(n)[j].Count)])

\* C4: in an accepted log matcher every positive field with count N > 1
\* contributes N identical entries to Match and every other positive field
\* one entry, in the order of the fields, so that the length of Match is the
\* sum over the positive fields of max(1, count).
C4_CountExpansion ==
    (op = "buildLogMatcherNode" /\ Accepted) =>
        LET n == arg.parserNode
            match == res.node.Object.Match
        IN /\ Len(match) = ExpandedCount(n)
           /\ \A i \in 1..Len(PosFields(n)) :
                 LET f == PosFields(n)[i]
                     from == EntriesBefore(n, i)
                 IN \A j \in 1..Max(1, f.Count) :
                       /\ match[from + j] = match[from + 1]
                       /\ match[from + j].Field = f.Field
                       /\ f.Field = "" => match[from + j].TermValue.Value = f.StrValue

\* {value: C, count: MaxCount} followed by the plain string A gives
\* MaxCount entries for C and then one for A
C4_Witness ==
    /\ op = "buildLogMatcherNode"
    /\ Accepted
    /\ Len(PosFields(arg.parserNode)) = 2
    /\ PosFields(arg.parserNode)[1].Count = MaxCount
    /\ PosFields(arg.parserNode)[2].Count = 0
    /\ Len(res.node.Object.Match) = MaxCount + 1
    /\ res.node.Object.Match[MaxCount].TermValue = [Type |-> TermRaw, Value |-> "C"]
    /\ res.node.Object.Match[MaxCount + 1].TermValue = [Type |-> TermRaw, Value |-> "A"]

(***************************************************************************)
(* Properties of the lowering of one field.                                *)
(***************************************************************************)
IsLowerCall == op \in {"newMatchTerm", "newNegateTerm"}
OnlyStr(f) == f.StrValue # "" /\ f.JqValue = "" /\ f.RegexValue = ""
OnlyJq(f) == f.StrValue = "" /\ f.JqValue # "" /\ f.RegexValue = ""
OnlyRegex(f) == f.StrValue = "" /\ f.JqValue = "" /\ f.RegexValue # ""
K8sAllowList == {"reason", "type", "reasonDetail"}
K8sKnown(src, f) == src = "k8s" /\ f.Field \in K8sAllowList
SelectExpr(field, value) == "select(." \o field \o " == \"" \o value \o "\")"
Yields(type, value) == Accepted /\ res.t.TermValue = [Type |-> type, Value |-> value]

\* C6 as claimed: for every source and field name a field with only
\* str_value, jq_value or regex_value set yields a Raw, JqJson or Regex term
\* of that value, and a k8s field named reason, type or reasonDetail yields
\* the term JqJson select(.<field> == "<value>").
C6_LoweringEverySource ==
    op = "newMatchTerm" =>
        /\ OnlyStr(arg.field) => Yields(TermRaw, arg.field.StrValue)
        /\ OnlyJq(arg.field) => Yields(TermJqJson, arg.field.JqValue)
        /\ OnlyRegex(arg.field) => Yields(TermRegex, arg.field.RegexValue)
        /\ K8sKnown(arg.src, arg.field)
              => Yields(TermJqJson, SelectExpr(arg.field.Field, arg.field.StrValue))

\* C6 amended: the three plain lowerings hold for every source and field
\* name except a k8s field named reason, type or reasonDetail, which always
\* yields JqJson select(.<field> == "<value>") of its string value.
C6_LoweringAmended ==
    op = "newMatchTerm" =>
        /\ (OnlyStr(arg.field) /\ ~K8sKnown(arg.src, arg.field))
              => Yields(TermRaw, arg.field.StrValue)
        /\ (OnlyJq(arg.field) /\ ~K8sKnown(arg.src, arg.field))
              => Yields(TermJqJson, arg.field.JqValue)
        /\ (OnlyRegex(arg.field) /\ ~K8sKnown(arg.src, arg.field))
              => Yields(TermRegex, arg.field.RegexValue)
        /\ K8sKnown(arg.src, arg.field)
              => Yields(TermJqJson, SelectExpr(arg.field.Field, arg.field.StrValue))

\* the k8s field {field: reason, value: Killing} lowered to its jq expression
C6_Witness ==
    /\ op = "newMatchTerm"
    /\ arg.src = "k8s"
    /\ arg.field.Field = "reason"
    /\ OnlyStr(arg.field)
    /\ res.t.TermValue = [Type |-> TermJqJson, Value |-> "select(.reason == \"Killing\")"]

\* C7: for every source and field name, a field with more than one of
\* str_value, jq_value and regex_value set fails with ErrInvalidNodeType,
\* lowered by newMatchTerm or by newNegateTerm.
C7_MultiValueRejected ==
    (IsLowerCall /\ ValuesSet(arg.field) > 1) => res.err.cause = ErrInvalidNodeType

\* C8: a field of a k8s matcher whose name is not reason, type or
\* reasonDetail fails with ErrUnknownField; a field of an unrecognized source
\* is lowered as a plain term without error.
C8_UnknownFieldRejected ==
    IsLowerCall =>
        /\ (arg.src = "k8s" /\ arg.field.Field \notin K8sAllowList)
              => res.err.cause = ErrUnknownField
        /\ (arg.src # "k8s" /\ ValuesSet(arg.field) = 1) => Accepted

(***************************************************************************)
(* Properties of the parse tree builder.                                   *)
(***************************************************************************)
IsTreeCall == op = "buildTree"
Built == IsTreeCall /\ ~IsErr(res.err)

\* an entry of a list names a term
IsRef(termsT, e) == e.StrValue # "" /\ MapHas(termsT, e.StrValue)
\* the term an entry stands for: the body of the term it names, or itself
EntryBody(termsT, e) == IF IsRef(termsT, e) THEN MapGet(termsT, e.StrValue) ELSE e

\* the positive and the negated entries of the root of a rule
RootPos(r) ==
    IF IsSome(r.Rule.Sequence) THEN Val(r.Rule.Sequence).Order.items
    ELSE IF IsSome(r.Rule.Set) THEN Val(r.Rule.Set).Match.items
    ELSE <<>>
RootNeg(r) ==
    IF IsSome(r.Rule.Sequence) THEN Val(r.Rule.Sequence).Negate.items
    ELSE IF IsSome(r.Rule.Set) THEN Val(r.Rule.Set).Negate.items
    ELSE <<>>

\* the one field of a leaf matcher, on the side it was built for
IsLeaf(child, negated) ==
    /\ child.kind = "matcher"
    /\ Len(child.Match.Fields) = (IF negated THEN 0 ELSE 1)
    /\ Len(child.Negate.Fields) = (IF negated THEN 1 ELSE 0)
LeafField(child, negated) ==
    IF negated THEN child.Negate.Fields[1] ELSE child.Match.Fields[1]
SameValues(f, t) ==
    /\ f.Field = t.Field
    /\ f.StrValue = t.StrValue
    /\ f.JqValue = t.JqValue
    /\ f.RegexValue = t.RegexValue

RECURSIVE PosThenNeg(_, _, _, _), ChildFrom(_, _, _, _)
\* the children of node are one child per entry of pos, in order, then one
\* per entry of neg, in order; NegIdx is Len(pos) with a negated child, else -1
PosThenNeg(termsT, node, pos, neg) ==
    /\ Len(node.Children) = Len(pos) + Len(neg)
    /\ node.NegIdx = (IF Len(neg) > 0 THEN Len(pos) ELSE -1)
    /\ \A i \in 1..Len(pos) :
          ChildFrom(termsT, node.Children[i], EntryBody(termsT, pos[i]), FALSE)
    /\ \A j \in 1..Len(neg) :
          ChildFrom(termsT, node.Children[Len(pos) + j], EntryBody(termsT, neg[j]), TRUE)

\* child is the positive or negated child of the term t
ChildFrom(termsT, child, t, negated) ==
    CASE IsSome(t.Sequence) ->
            /\ child.kind = "node"
            /\ child.Metadata.Type \in {NodeTypeSeq, NodeTypeLogSeq}
            /\ PosThenNeg(termsT, child, Val(t.Sequence).Order.items,
                          Val(t.Sequence).Negate.items)
      [] IsNone(t.Sequence) /\ IsSome(t.Set) ->
            /\ child.kind = "node"
            /\ child.Metadata.Type \in {NodeTypeSet, NodeTypeLogSet}
            /\ PosThenNeg(termsT, child, Val(t.Set).Match.items, Val(t.Set).Negate.items)
      [] OTHER ->
            /\ IsLeaf(child, negated)
            /\ SameValues(LeafField(child, negated), t)

\* C3: in every composite node of a built parse tree (the root, built by
\* buildSequenceTree or buildSetTree, and every nested node, built by
\* buildSequenceNode or buildSetNode) Children is one positive child per entry
\* of order/match in input order followed by one negated child per entry of
\* negate in input order, and NegIdx is the number of positive children when
\* there is a negated child and -1 when there is none.
C3_ChildrenPosThenNeg ==
    Built => PosThenNeg(arg.termsT, res.node, RootPos(arg.r), RootNeg(arg.r))

\* order [term4, A] with negate [N]: the root and the node of term4 have
\* NegIdx 2, the inline set inside term4 has no negated child and NegIdx -1
C3_Witness ==
    /\ Built
    /\ Len(RootPos(arg.r)) = 2
    /\ Len(RootNeg(arg.r)) = 1
    /\ RootPos(arg.r)[1].StrValue = "term4"
    /\ res.node.NegIdx = 2
    /\ res.node.Children[1].NegIdx = 2
    /\ Len(res.node.Children[1].Children) = 3
    /\ res.node.Children[1].Children[2].NegIdx = -1
    /\ res.node.Children[3].kind = "matcher"
    /\ res.node.Children[3].Negate.Fields[1].StrValue = "N"

\* negate options as a node carries them: the durations parsed
Duration(s) == IF s = "" THEN 0 ELSE ParseDuration(s).d
CarriedOpts(o) ==
    IF IsNone(o) THEN None
    ELSE Some([Window |-> Duration(Val(o).Window), Slide |-> Duration(Val(o).Slide),
               Anchor |-> Val(o).Anchor, Absolute |-> Val(o).Absolute])

RECURSIVE TermsResolved(_, _, _, _), BuiltFrom(_, _, _, _, _)
\* child is the node built from body with the negate options opts: a
\* sequence or set node has them in its metadata and a negated leaf in its
\* field (parseValue gives the field of a positive leaf none)
BuiltFrom(termsT, child, body, opts, negated) ==
    CASE IsSome(body.Sequence) ->
            /\ child.kind = "node"
            /\ child.Metadata.Type \in {NodeTypeSeq, NodeTypeLogSeq}
            /\ child.Metadata.NegateOpts = CarriedOpts(opts)
            /\ TermsResolved(termsT, child, Val(body.Sequence).Order.items,
                             Val(body.Sequence).Negate.items)
      [] IsNone(body.Sequence) /\ IsSome(body.Set) ->
            /\ child.kind = "node"
            /\ child.Metadata.Type \in {NodeTypeSet, NodeTypeLogSet}
            /\ child.Metadata.NegateOpts = CarriedOpts(opts)
            /\ TermsResolved(termsT, child, Val(body.Set).Match.items,
                             Val(body.Set).Negate.items)
      [] OTHER ->
            /\ IsLeaf(child, negated)
            /\ SameValues(LeafField(child, negated), body)
            /\ LeafField(child, negated).NegateOpts
                  = (IF negated THEN CarriedOpts(opts) ELSE None)

\* every child of node is resolved from its entry: a reference to a term is
\* the node built from the term's body with the reference's negate options
\* if it has any and the term's own otherwise; a string that names no term is
\* a leaf matcher with that string value
TermsResolved(termsT, node, pos, neg) ==
    /\ Len(node.Children) = Len(pos) + Len(neg)
    /\ \A i \in 1..(Len(pos) + Len(neg)) :
          LET e == (pos \o neg)[i]
              negated == i > Len(pos)
              child == node.Children[i]
          IN IF IsRef(termsT, e)
             THEN BuiltFrom(termsT, child, MapGet(termsT, e.StrValue),
                            IF IsSome(e.NegateOpts) THEN e.NegateOpts
                            ELSE MapGet(termsT, e.StrValue).NegateOpts,
                            negated)
             ELSE IF e.StrValue # ""
             THEN /\ IsLeaf(child, negated)
                  /\ LeafField(child, negated).StrValue = e.StrValue
             ELSE BuiltFrom(termsT, child, e, e.NegateOpts, negated)

EmptyOrder(seq) == Len(seq.Order.items) = 0
OrderlessSequence(termsT, r) ==
    \/ IsSome(r.Rule.Sequence) /\ EmptyOrder(Val(r.Rule.Sequence))
    \/ \E i \in 1..Len(RootPos(r) \o RootNeg(r)) :
          LET t == EntryBody(termsT, (RootPos(r) \o RootNeg(r))[i])
          IN IsSome(t.Sequence) /\ EmptyOrder(Val(t.Sequence))

\* C9: a rule with a sequence, at the root or nested, whose order is absent
\* or an empty list fails to parse with ErrMissingOrder.
C9_EmptyOrderRejected ==
    (IsTreeCall /\ OrderlessSequence(arg.termsT, arg.r)) => res.err.cause = ErrMissingOrder

\* how many of rule.sequence and rule.set are populated
Populated(r) ==
    (IF IsSome(r.Rule.Sequence) THEN 1 ELSE 0) + (IF IsSome(r.Rule.Set) THEN 1 ELSE 0)

\* C10: buildTree accepts a rule body only when exactly one of rule.sequence
\* and rule.set is populated; a body with neither and a body with both fail
\* with ErrNotSupported.
C10_ExactlyOneBody ==
    (IsTreeCall /\ findChild(RuleNodeOf(arg.doc), docRule).ok) =>
        /\ ~IsErr(res.err) => Populated(arg.r) = 1
        /\ Populated(arg.r) # 1 => res.err.cause = ErrNotSupported

(***************************************************************************)
(* Properties of the errors of the parse stage.                            *)
(***************************************************************************)
\* the sentinel errors of the parser
ParserSentinels ==
    {ErrRuleNotFound, ErrRuleRootNotFound, ErrNotSupported, ErrTermNotFound, ErrMissingOrder,
     ErrMissingMatch, ErrInvalidWindow, ErrTermsMapping, ErrDuplicateTerm, ErrMissingRuleId,
     ErrMissingRuleHash, ErrMissingCreId, ErrInvalidCreId, ErrInvalidRuleId,
     ErrInvalidRuleHash, ErrExtractName}

\* C17: every error the parse stage returns is a positional error wrapped
\* exactly once around one of the sentinels; no bare sentinel and no foreign
\* error (such as a duration-parse error from negate options) reaches the
\* caller.
C17_ErrorsPositional ==
    (IsTreeCall /\ IsErr(res.err)) =>
        /\ Len(res.err.layers) = 1
        /\ res.err.cause \in ParserSentinels

(***************************************************************************)
(* Properties of the extract declarations of the leaves.                   *)
(***************************************************************************)
IsExtractCall == op = "buildExtract"

NamesOf(extracts) == [i \in 1..Len(extracts) |-> extracts[i].Name]
HasBadName(names) == \E i \in 1..Len(names) : ~isValidExtractName(names[i])

\* C19: a leaf child with extract declarations, positive or negated, is
\* rejected with ErrExtractName when one of the names fails the pattern, and
\* every extract of an accepted leaf is present in the field of the
\* resulting matcher.
C19_ExtractsEveryLeaf ==
    IsExtractCall =>
        /\ (HasBadName(arg.posNames) \/ (IsSome(arg.negNames) /\ HasBadName(Val(arg.negNames))))
              => (IsErr(res.err) /\ res.err.cause = ErrExtractName)
        /\ ~IsErr(res.err) =>
              /\ NamesOf(res.node.Children[1].Match.Fields[1].Extract) = arg.posNames
              /\ IsSome(arg.negNames) =>
                    NamesOf(res.node.Children[2].Negate.Fields[1].Extract) = Val(arg.negNames)

(***************************************************************************)
(* Properties of the field-specs whose value names a term.                 *)
(***************************************************************************)
IsFieldSpecCall == op = "buildFieldSpec"

\* C25: term substitution applies only to plain string references: a child
\* that is a field-spec with a field name, count or extract set keeps its own
\* field, value, count and extract in the resulting leaf matcher even when
\* its string value equals the name of a term of the index.
C25_FieldSpecKept ==
    (/\ IsFieldSpecCall
     /\ (arg.entry.Field # "" \/ arg.entry.Count # 0 \/ Len(arg.entry.Extract) > 0)) =>
        /\ ~IsErr(res.err)
        /\ \E child \in {res.node.Children[IF arg.negated THEN 2 ELSE 1]} :
              /\ IsLeaf(child, arg.negated)
              /\ SameValues(LeafField(child, arg.negated), arg.entry)
              /\ LeafField(child, arg.negated).Count = arg.entry.Count
              /\ ~arg.negated =>
                    NamesOf(LeafField(child, arg.negated).Extract) = NamesOf(arg.entry.Extract)

(***************************************************************************)
(* Properties of the position of a window error.  The position of the      *)
(* `window` entry is the one of the node findChild returns for the key.    *)
(***************************************************************************)
IsWindowCall == op = "buildWindow"

\* C20: a window string of a sequence or set that cannot be parsed yields
\* ErrInvalidWindow carrying the line and column of that node's own `window`
\* entry, not of the enclosing block: for a root sequence, a root set, a
\* composite nested through a term and a composite nested inline.
C20_WindowErrorPosition ==
    (IsWindowCall /\ ~ParseDuration(arg.window).ok) =>
        /\ IsErr(res.err)
        /\ res.err.cause = ErrInvalidWindow
        /\ Len(res.err.layers) >= 1
        /\ res.err.layers[1].Pos = arg.win

(***************************************************************************)
(* Properties of Read and ParseRules.                                      *)
(***************************************************************************)
IsCompileCall == op = "compile"
Compiled == IsCompileCall /\ ~IsErr(res.err)

\* C11: after every successful compilation, with or without WithGenIds, each
\* parse root has a non-empty rule id, rule hash and cre id, and no two roots
\* share a rule id, a rule hash or a cre id.
C11_RootIdsUnique ==
    Compiled =>
        /\ \A i \in 1..Len(res.Nodes) :
              /\ res.Nodes[i].Metadata.RuleId # ""
              /\ res.Nodes[i].Metadata.RuleHash # ""
              /\ res.Nodes[i].Metadata.CreId # ""
        /\ \A i, j \in 1..Len(res.Nodes) :
              i # j =>
                /\ res.Nodes[i].Metadata.RuleId # res.Nodes[j].Metadata.RuleId
                /\ res.Nodes[i].Metadata.RuleHash # res.Nodes[j].Metadata.RuleHash
                /\ res.Nodes[i].Metadata.CreId # res.Nodes[j].Metadata.CreId

\* a version footer: the top-level `section` key is the scalar `version`
IsFooter(root) ==
    /\ findChild(root, docSection).ok
    /\ findChild(root, docSection).node.Kind = "scalar"
    /\ findChild(root, docSection).node.Value = docVersion

\* the rule nodes of the rules documents of a stream, in input order
RuleNodesOf(stream) ==
    Flatten([i \in 1..Len(stream) |->
                IF stream[i].Kind = "nil" \/ IsFooter(stream[i])
                   \/ ~findChild(stream[i], docRules).ok
                THEN <<>>
                ELSE findChild(stream[i], docRules).node.Content])

\* C13: a successful ParseRules on the result of Read returns one parse root
\* for each rule of the stream, root i built from rule i in input order and
\* that rule's own document node; ErrRuleNotFound is returned for no rule
\* that Read aggregated.
C13_RootPerRule ==
    (IsCompileCall /\ ~IsErr(res.config.err)) =>
        /\ res.err.cause # ErrRuleNotFound
        /\ ~IsErr(res.err) =>
              /\ Len(res.Nodes) = Len(RuleNodesOf(arg.stream))
              /\ \A i \in 1..Len(res.Nodes) :
                    res.Nodes[i] =
                        buildTree(res.config.TermsT,
                                  IF arg.genIds
                                  THEN genIdsOf(decodeRule(RuleNodesOf(arg.stream)[i]))
                                  ELSE decodeRule(RuleNodesOf(arg.stream)[i]),
                                  RuleNodesOf(arg.stream)[i], res.config.TermsY).node

\* a stream without its version footers
WithoutFooters(stream) == SelectSeq(stream, LAMBDA root : ~IsFooter(root))

\* C14: Read ignores every version footer: it returns the same Rules, TermsT,
\* TermsY and Root, and the same error or none, as for the stream with the
\* footers removed, wherever they occur.
C14_FooterIgnored ==
    IsCompileCall => res.config = Read(WithoutFooters(arg.stream), arg.genIds)

\* a footer that holds a rule and terms, between two rules documents; Read
\* returns the rules of the other two documents and no term
C14_Witness ==
    /\ IsCompileCall
    /\ Len(arg.stream) = 3
    /\ ~IsFooter(arg.stream[1])
    /\ IsFooter(arg.stream[2])
    /\ Len(findChild(arg.stream[2], docRules).node.Content) = 1
    /\ ~IsFooter(arg.stream[3])
    /\ ~IsErr(res.config.err)
    /\ Len(res.config.Rules) = 2
    /\ res.config.TermsT = EmptyMap
    /\ res.config.Root = findChild(arg.stream[3], docRules).node

IsHashCall == op = "hash"

\* a rule with the given metadata fields cleared
Without(rule, gen, version, hash) ==
    [rule EXCEPT !.Metadata.Gen = IF gen THEN 0 ELSE @,
                 !.Metadata.Version = IF version THEN "" ELSE @,
                 !.Metadata.Hash = IF hash THEN "" ELSE @]

\* C15: StableHash is the same for two rules that differ only in
\* metadata.gen, metadata.version and metadata.hash; HashRule is the same for
\* two rules that differ only in metadata.hash; neither changes the caller's
\* rule.
C15_StableHashInvariance ==
    IsHashCall =>
        /\ Without(arg.r1, TRUE, TRUE, TRUE) = Without(arg.r2, TRUE, TRUE, TRUE)
              => res.stable1 = res.stable2
        /\ Without(arg.r1, FALSE, FALSE, TRUE) = Without(arg.r2, FALSE, FALSE, TRUE)
              => res.hash1 = res.hash2
        /\ res.r1 = arg.r1
        /\ res.r2 = arg.r2

\* two rules that differ in gen, version and hash and in nothing else: the
\* stable hashes agree, the rule hashes do not
C15_Witness ==
    /\ IsHashCall
    /\ arg.r1.Metadata.Gen # arg.r2.Metadata.Gen
    /\ arg.r1.Metadata.Version # arg.r2.Metadata.Version
    /\ arg.r1.Metadata.Hash # ""
    /\ arg.r2.Metadata.Hash # ""
    /\ arg.r1.Metadata.Hash # arg.r2.Metadata.Hash
    /\ Without(arg.r1, TRUE, TRUE, TRUE) = Without(arg.r2, TRUE, TRUE, TRUE)
    /\ res.stable1 = res.stable2
    /\ res.hash1 # res.hash2

\* the one rule of a stream of one document, as decoded
OnlyRule == decodeRule(RuleNodesOf(arg.stream)[1])

\* a compilation of one document that holds one rule, which lacks the rule
\* id, the rule hash or both
LacksIds ==
    /\ IsCompileCall
    /\ Len(arg.stream) = 1
    /\ Len(RuleNodesOf(arg.stream)) = 1
    /\ (OnlyRule.Metadata.Id = "" \/ OnlyRule.Metadata.Hash = "")

\* C16: compiling with WithGenIds a rule that lacks metadata.id and/or
\* metadata.hash yields a root with a base58-valid rule id (derived from the
\* cre id) and rule hash (derived from the rule content), supplied
\* identifiers unchanged; compiling it without the option fails with
\* ErrMissingRuleId.
C16_GenIds ==
    LacksIds =>
        IF arg.genIds
        THEN /\ ~IsErr(res.err)
             /\ Len(res.Nodes) = 1
             /\ isValidBase58Id(res.Nodes[1].Metadata.RuleId)
             /\ isValidBase58Id(res.Nodes[1].Metadata.RuleHash)
             /\ res.Nodes[1].Metadata.RuleId =
                    IF OnlyRule.Metadata.Id = "" THEN Hash(OnlyRule.Cre.Id)
                    ELSE OnlyRule.Metadata.Id
             /\ res.Nodes[1].Metadata.RuleHash =
                    IF OnlyRule.Metadata.Hash = ""
                    THEN HashRule([OnlyRule EXCEPT !.Metadata.Id = res.Nodes[1].Metadata.RuleId])
                    ELSE OnlyRule.Metadata.Hash
        ELSE res.err.cause = ErrMissingRuleId

\* the rules of the rules documents of a stream, decoded
StreamRulesOf(stream) ==
    [i \in 1..Len(RuleNodesOf(stream)) |-> decodeRule(RuleNodesOf(stream)[i])]

\* C23: with auto-generation disabled, Read returns a duplicate-id error only
\* when two distinct rules share a rule hash, share a rule id or share a cre
\* id; an identifier that equals one of another kind, of the same rule or of
\* another one, causes no such error (a rule whose id and hash are both
\* empty included).
C23_DuplicateSameKind ==
    (IsCompileCall /\ ~arg.genIds /\ res.config.err.cause = ErrDuplicateId) =>
        \E i, j \in 1..Len(StreamRulesOf(arg.stream)) :
            /\ i # j
            /\ \/ StreamRulesOf(arg.stream)[i].Metadata.Hash
                     = StreamRulesOf(arg.stream)[j].Metadata.Hash
               \/ StreamRulesOf(arg.stream)[i].Metadata.Id
                     = StreamRulesOf(arg.stream)[j].Metadata.Id
               \/ StreamRulesOf(arg.stream)[i].Cre.Id = StreamRulesOf(arg.stream)[j].Cre.Id

IsExampleCall == op = "compileExample"

\* the kinds of the nodes of a parse tree in depth-first pre-order; a leaf
\* matcher is no node of its own
RECURSIVE KindsOf(_)
KindsOf(node) ==
    IF node.kind # "node" THEN <<>>
    ELSE <<node.Metadata.Type>>
         \o Flatten([i \in 1..Len(node.Children) |-> KindsOf(node.Children[i])])

\* C18: compiling the rule of 41-nested.yaml yields one tree whose node kinds
\* in depth-first pre-order are [machine_seq, log_seq, log_set, machine_seq,
\* log_seq, log_set, log_set] and whose root NegIdx is 2.
C18_NestedAsClaimed ==
    (IsExampleCall /\ arg.genIds) =>
        /\ ~IsErr(res.err)
        /\ Len(res.Nodes) = 1
        /\ KindsOf(res.Nodes[1]) =
              <<NodeTypeSeq, NodeTypeLogSeq, NodeTypeLogSet, NodeTypeSeq, NodeTypeLogSeq,
                NodeTypeLogSet, NodeTypeLogSet>>
        /\ res.Nodes[1].NegIdx = 2

\* C18, amended: compiled with WithGenIds, the rule of 41-nested.yaml yields
\* one tree whose node kinds in depth-first pre-order are [machine_seq,
\* log_seq, machine_seq, log_seq, log_set, log_set, log_set] (term1, term3 and
\* its three inline children, then the negated term2) and whose root NegIdx
\* is 2.
C18_NestedPreOrder ==
    (IsExampleCall /\ arg.genIds) =>
        /\ ~IsErr(res.err)
        /\ Len(res.Nodes) = 1
        /\ KindsOf(res.Nodes[1]) =
              <<NodeTypeSeq, NodeTypeLogSeq, NodeTypeSeq, NodeTypeLogSeq, NodeTypeLogSet,
                NodeTypeLogSet, NodeTypeLogSet>>
        /\ res.Nodes[1].NegIdx = 2

\* the example compiled: three children under the root, the second one the
\* machine of term3 with three children of its own
C18_Witness ==
    /\ IsExampleCall
    /\ arg.genIds
    /\ ~IsErr(res.err)
    /\ Len(res.Nodes) = 1
    /\ Len(res.Nodes[1].Children) = 3
    /\ res.Nodes[1].Children[2].Metadata.Type = NodeTypeSeq
    /\ Len(res.Nodes[1].Children[2].Children) = 3
    /\ res.Nodes[1].Children[1].Children[1].Match.Fields[1].Count = ExampleCount

(***************************************************************************)
(* Properties of the expansion of terms.                                   *)
(***************************************************************************)
IsExpandCall == op = "expand"
Returned == IsExpandCall /\ res.returned

\* the names the lists of a term refer to
refsOf(tm, term) ==
    IF ~IsComposite(term) THEN {}
    ELSE {refName(tm, childTerms(term)[i].t) : i \in 1..Len(childTerms(term))} \ {""}

\* the names reached from a set of names through the lists of the terms
RECURSIVE reachedFrom(_, _, _)
reachedFrom(tm, names, n) ==
    IF n = 0 THEN names
    ELSE reachedFrom(tm, names \cup UNION {refsOf(tm, MapGet(tm, k)) : k \in names}, n - 1)

\* a term reaches its own name, directly or through other terms
reachesItself(tm, name) ==
    name \in reachedFrom(tm, refsOf(tm, MapGet(tm, name)), Len(tm.keys))

TermNames(tm) == {tm.keys[i] : i \in 1..Len(tm.keys)}
Acyclic(tm) == \A name \in TermNames(tm) : ~reachesItself(tm, name)

\* the terms the rule reaches, directly or through other terms
RuleReaches(r, tm) == reachedFrom(tm, refsOf(tm, rootTerm(r)), Len(tm.keys))

\* every entry of the rule and of the terms is a sequence, a set or a leaf
\* that parseValue accepts
NoEntryFails(r, tm) ==
    \A term \in {rootTerm(r)} \cup {MapGet(tm, k) : k \in TermNames(tm)} :
        IsComposite(term) =>
            \A i \in 1..Len(childTerms(term)) :
                \/ IsComposite(resolveTerm(tm, childTerms(term)[i].t))
                \/ ~IsErr(leafErr(resolveTerm(tm, childTerms(term)[i].t),
                                  childTerms(term)[i].negate))

\* C21: buildTree returns a tree or an error for every rule and terms index
\* in which no term reaches its own name through its lists; when a term of
\* the index does reach itself, buildTree never returns.
C21_AsClaimed ==
    /\ (IsExpandCall /\ Acyclic(arg.termsT)) ~> Returned
    /\ []((IsExpandCall /\ ~Acyclic(arg.termsT)) => ~Returned)

\* C21, amended: buildTree returns a tree or an error whenever no term the
\* rule reaches (directly or through other terms) reaches its own name; when
\* the rule reaches a term that reaches itself and no entry fails, the
\* expansion recurses without bound and buildTree never returns.
C21_Termination ==
    /\ (IsExpandCall /\ \A name \in RuleReaches(arg.r, arg.termsT) :
                            ~reachesItself(arg.termsT, name)) ~> Returned
    /\ []((/\ IsExpandCall
           /\ \E name \in RuleReaches(arg.r, arg.termsT) : reachesItself(arg.termsT, name)
           /\ NoEntryFails(arg.r, arg.termsT))
          => ~Returned)

\* the expansion is as deep as it is followed and a term is under
\* construction inside itself
C21_Witness ==
    /\ IsExpandCall
    /\ Len(res.stack) = MaxDepth
    /\ \E i, j \in 1..Len(res.stack) :
          i < j /\ res.stack[i].name # "" /\ res.stack[i].name = res.stack[j].name

\* a parse tree without rule identity and positions
RECURSIVE StripIdentity(_)
StripIdentity(node) ==
    IF node.kind # "node" THEN node
    ELSE [node EXCEPT !.Metadata.RuleId = "", !.Metadata.RuleHash = "", !.Metadata.CreId = "",
                      !.Metadata.Pos = Pos(0, 0),
                      !.Children = [i \in 1..Len(node.Children) |->
                                       StripIdentity(node.Children[i])]]

\* the subtree of a plain reference to a term under the root of a rule with
\* the given identity, at the given place of the document
ExpandedIn(doc, name, ruleId, ruleHash, creId, line) ==
    buildChild(initNode(ruleId, ruleHash, creId, Place(RuleNodeOf(doc), line, 0)).node,
               IndexOf(doc).m, [ZeroTerm EXCEPT !.StrValue = name], FALSE,
               Place(RuleNodeOf(doc), line, 0), IndexOf(doc).p)

\* C22: expanding a term reference never changes the terms index: after a
\* reference that supplies negate options of its own the index entry has its
\* original body and options, a reference without options gets the term's
\* own options, and one term expanded in two rules gives subtrees that are
\* equal except for rule identity and positions.
C22_IndexUnchanged ==
    /\ [][IsExpandCall => arg'.termsT = arg.termsT]_vars
    /\ [](IsExpandCall =>
            /\ arg.termsT = IndexOf(arg.doc).m
            /\ \A i \in 1..Len(res.stack) :
                  res.stack[i].name # "" =>
                      res.stack[i].term =
                          IF IsSome(res.stack[i].entry.NegateOpts)
                          THEN [MapGet(IndexOf(arg.doc).m, res.stack[i].name)
                                   EXCEPT !.NegateOpts = res.stack[i].entry.NegateOpts]
                          ELSE MapGet(IndexOf(arg.doc).m, res.stack[i].name))
    /\ []((IsExpandCall /\ Acyclic(IndexOf(arg.doc).m)) =>
            \A name \in TermNames(IndexOf(arg.doc).m) :
                /\ ~IsErr(ExpandedIn(arg.doc, name, GoodId, GoodHash, GoodCre, 1).err)
                /\ StripIdentity(ExpandedIn(arg.doc, name, GoodId, GoodHash, GoodCre, 1).node)
                   = StripIdentity(ExpandedIn(arg.doc, name, OtherId, OtherHash, OtherCre,
                                              2).node))

\* the rule refers to t2 with options and then without: the second frame of
\* t2 is open, built from the entry without options, and holds the options
\* t2 has in the index
C22_Witness ==
    /\ IsExpandCall
    /\ Len(Val(arg.r.Rule.Sequence).Order.items) = 2
    /\ IsSome(Val(arg.r.Rule.Sequence).Order.items[1].NegateOpts)
    /\ Len(res.stack) >= 2
    /\ Len(res.stack[1].rest) = 0
    /\ res.stack[2].name = "t2"
    /\ IsNone(res.stack[2].entry.NegateOpts)
    /\ IsSome(res.stack[2].term.NegateOpts)
    /\ Val(res.stack[2].term.NegateOpts).Window = "5s"

(***************************************************************************)
(* Properties of the addresses of the AST.                                 *)
(***************************************************************************)
IsBuildCall == op = "build"

\* the addresses of a node and of the nodes below it, in pre-order
RECURSIVE AddressesOf(_)
AddressesOf(node) ==
    <<node.Address>>
    \o Flatten([i \in 1..Len(node.Children) |-> AddressesOf(node.Children[i])])

ForestAddresses == Flatten([i \in 1..Len(res.Nodes) |-> AddressesOf(res.Nodes[i])])

====
